---------------------------- MODULE Spec2Model ----------------------------
(***************************************************************************)
(* Zone detection of the Dual-Frequency-Alpha repository:                  *)
(*   - flat zones  (src/Python/FindFlats.py):  rolling std -> mask ->      *)
(*     clean_mask -> extract_zones -> filter_zones_by_size                 *)
(*   - step zones  (src/Python/FindFlats2.py): detect_transitions ->       *)
(*     make_step_zones, as driven by src/Python/AlphaAnalysis.py           *)
(*                                                                         *)
(* Conventions.  A pandas Series / numpy array of N samples is a TLA+      *)
(* sequence of length N; Python position p is sequence index p+1.  Zones   *)
(* and transition indices keep the Python numbers (0-based, half-open), so *)
(* a zone is a pair <<start, end>> exactly as the code returns it.         *)
(* Sample values are integers and thresholds are rationals <<num, den>>;   *)
(* the comparisons the code makes in floating point (std <= tol,           *)
(* smooth > threshold) are made exactly by cross-multiplication.           *)
(* NaN (an undefined rolling statistic, or "no threshold given") is the    *)
(* pair <<0, 0>>.                                                          *)
(***************************************************************************)
EXTENDS Integers, Sequences, FiniteSets, TLC

VARIABLES
    series,         \* the value column handed to the detector
    index_base,     \* label of the first row of the Series (its pandas index)
    window_size,    \* FindFlats.get_user_thresholds
    tol,            \* FindFlats.get_user_thresholds (rational)
    min_size,       \* minimum zone length
    max_hole,       \* clean_mask parameter
    max_island,     \* clean_mask parameter
    raw_mask,       \* detect_flat_mask result / the mask given to clean_mask
    filled,         \* clean_mask's arr after pass 1 (fill small holes)
    cleaned,        \* clean_mask result
    recleaned,      \* clean_mask applied to its own result
    cand_zones,     \* extract_zones result / the list given to the filter
    zones,          \* the zone list finally returned
    diff_window,    \* AlphaAnalysis.main / detect_transitions
    diff_threshold, \* explicit threshold, or NaN for "auto"
    transitions,    \* detect_transitions result
    step_edges,     \* detect_transitions' edges: the candidates, before thinning
    pc,             \* position in the driver
    n_path,         \* which copy of the time normalization runs
    n_mode,         \* elapsed_mode.get(): "elapsed" or "absolute"
    n_raw,          \* the table as read: raw time cells and value cells
    n_df,           \* the data frame after normalization
    n_status,       \* how the normalization ended
    sp_routine,     \* which spectral routine runs
    sp_times,       \* the elapsed-time column of the data frame
    sp_vals,        \* one pressure column of the data frame
    sp_zone,        \* the zone: (start, end) times, or (lower, upper) rows
    sp_dt,          \* mean sample spacing of the slice
    sp_freqs,       \* the frequency bins returned (bin numbers k)
    sp_amps,        \* per returned bin, twice the squared DFT magnitude
    sp_status,      \* how the spectral routine ended
    btn_state,      \* state of the buttons that start an operation
    main_pc,        \* what the Tk main thread is in: event loop or a dialog
    attempts,       \* number of loads started so far
    date_outcome,   \* per load attempt, how the date prompt ended
    worker_pc,      \* per load attempt, position of its _process_data thread
    collected_date_event,   \* threading.Event
    bad_date_event,         \* threading.Event
    finished_loading_event, \* threading.Event
    gif_running,    \* the _next_frame chain of the loading animation is alive
    ready_calls,    \* _on_data_ready callbacks queued with after(0, ...)
    df_set,         \* self.df is not None
    has_zones,      \* self.zones is not empty
    rs_active,      \* the RectangleSelector is active
    gui_zones,      \* self.zones: start, end and label text of each zone
    min_var,        \* self.min_var.get(): least span of a drawn zone
    heap,           \* the Series, arrays and lists alive, by object identity
    obj_count,      \* number of objects created so far
    refs,           \* which object each name of the running code is bound to
    multiple,       \* get_non_negative_integers: the multiple argument
    allowBlank,     \* the allowBlank argument
    maximum,        \* the maximum argument
    user_input,     \* the text input(prompt) returned, before strip()
    prompts,        \* number of times input(prompt) was called
    gi_status,      \* where the call is: prompting, returned or raised
    gi_result       \* the value returned

vars == << series, index_base, window_size, tol, min_size, max_hole,
           max_island, raw_mask, filled, cleaned, recleaned, cand_zones,
           zones, diff_window, diff_threshold, transitions, step_edges, pc,
           n_path, n_mode, n_raw, n_df, n_status,
           sp_routine, sp_times, sp_vals, sp_zone, sp_dt, sp_freqs, sp_amps,
           sp_status,
           btn_state, main_pc, attempts, date_outcome, worker_pc,
           collected_date_event, bad_date_event, finished_loading_event,
           gif_running, ready_calls, df_set, has_zones, rs_active,
           gui_zones, min_var, heap, obj_count, refs, multiple,
           allowBlank, maximum, user_input, prompts, gi_status, gi_result >>

promptVars == << multiple, allowBlank, maximum, user_input, prompts, gi_status,
                 gi_result >>

heapVars == << heap, obj_count, refs >>

loadVars == << btn_state, main_pc, attempts, date_outcome, worker_pc,
               collected_date_event, bad_date_event, finished_loading_event,
               gif_running, ready_calls, df_set, has_zones, rs_active >>

zoneVars == << gui_zones, min_var >>

detectVars == << series, index_base, window_size, tol, min_size, max_hole,
                 max_island, raw_mask, filled, cleaned, recleaned, cand_zones,
                 zones, diff_window, diff_threshold, transitions, step_edges >>

normVars == << n_path, n_mode, n_raw, n_df, n_status >>

spVars == << sp_routine, sp_times, sp_vals, sp_zone, sp_dt, sp_freqs, sp_amps,
             sp_status >>

----------------------------------------------------------------------------
(* Bounds of the model *)

MaxLen == 6
MaxWindow == 3
MaxMinSize == 3
MaxMaskLen == 8
MaxHole == 3
MaxIsland == 3
MaxZones == 3
WideWindow == 10
MaxDiffWindow == 2
MaxRows == 4
MaxSamples == 4
MantBits == 3
MaxAttempts == 2
MaxGuiZones == 3
HeapSize == 5
MaxText == 3

(* Program constants *)

\* tableData = data.iloc[6:, :]: the driver's table keeps row labels 6, 7, ...
IlocStart == 6
\* median() * 3
AutoFactor == 3

Values == {0, 1, 5}
Tols == { <<0, 1>>, <<1, 10>>, <<3, 1>> }
Thresholds == { <<0, 0>>, <<0, 1>>, <<5, 1>> }

\* The concrete scenarios of the specification's section 8
ScenarioFlatSteps == << 1, 1, 1, 5, 5, 5, 5, 1, 1, 1 >>
ScenarioFlatZero == << 0, 0, 0, 0 >>
ScenarioStep == << 0, 0, 0, 10, 10, 10 >>
\* a series on which window_size = WideWindow leaves a one-sample island
ScenarioIsland == << 0, 0, 5, 0, 5, 0, 5, 0, 5 >>

\* window sizes with max_island = 0 and one with max_island = 1
WindowSizes == (1 .. MaxWindow) \cup { WideWindow }

\* zone tuples of lengths 1, 2, 2, 0 and -2
ZonePairs == { << 0, 1 >>, << 0, 2 >>, << 1, 3 >>, << 2, 2 >>, << 3, 1 >> }

RECURSIVE SeqsUpTo(_, _)
SeqsUpTo(S, n) ==
    IF n = 0 THEN { << >> }
    ELSE LET shorter == SeqsUpTo(S, n - 1)
         IN  shorter \cup { Append(s, x) : s \in { t \in shorter : Len(t) = n - 1 }, x \in S }

SeriesInputs ==
    SeqsUpTo(Values, MaxLen)
        \cup { ScenarioFlatSteps, ScenarioFlatZero, ScenarioStep, ScenarioIsland }

MaskInputs == SeqsUpTo(BOOLEAN, MaxMaskLen)

ZoneInputs == SeqsUpTo(ZonePairs, MaxZones)

\* pressure samples of the spectral model: floating-point numbers that the
\* MantBits-bit format holds exactly
SampleValues == { 0, 5, 6, 14 }
\* sample counts whose DFT twiddle factors have cosines in {0, 1/2, 1} and
\* their negatives, so that the power of every bin is an exact rational
SampleCounts == { 0, 1, 2, 3, 4, 6 }
\* sampling steps of the elapsed-time column, in seconds
SampleSteps == { 1, 2 }

\* x coordinates (elapsed seconds) of mouse events on the plot
Xs == 0 .. 3
\* values of the minimum-span entry
MinSpans == { 0, 2 }
\* mouse buttons: left and right
MouseButtons == { 1, 3 }

\* cells of a time column holding elapsed seconds
ElapsedCells == { "1", "2", "4", "bad" }
\* cells of a time column holding times of day
ClockCells == { "00:00:01.0", "00:00:02.0", "00:00:04.0", "bad" }
\* cells of a pressure column
ValueCells == { "7", "x" }

----------------------------------------------------------------------------
(* Arithmetic helpers *)

NaN == << 0, 0 >>
IsNaN(q) == q[2] = 0

Max(a, b) == IF a >= b THEN a ELSE b
Abs(x) == IF x < 0 THEN -x ELSE x

\* a > b for rationals with positive denominators; False when either is NaN
RatGt(a, b) == ~IsNaN(a) /\ ~IsNaN(b) /\ a[1] * b[2] > b[1] * a[2]
RatLt(a, b) == RatGt(b, a)
RatEq(a, b) == ~IsNaN(a) /\ ~IsNaN(b) /\ a[1] * b[2] = b[1] * a[2]
\* a - b; NaN (NaT) when either side is
RatSub(a, b) ==
    IF IsNaN(a) \/ IsNaN(b) THEN NaN
    ELSE << a[1] * b[2] - b[1] * a[2], a[2] * b[2] >>

RECURSIVE SumRange(_, _, _)
SumRange(f, lo, hi) == IF lo > hi THEN 0 ELSE f[hi] + SumRange(f, lo, hi - 1)

\* the rows ps of a column, in that order
Take(col, ps) == [ k \in 1 .. Len(ps) |-> col[ps[k]] ]

----------------------------------------------------------------------------
(* FindFlats.detect_flat_mask *)

\* first index of the trailing window that ends at i
WindowLo(i, w) == Max(1, i - w + 1)

\* number of observations in the trailing window that ends at i
WindowCount(i, w) == i - WindowLo(i, w) + 1

\* rolling(...).std() is NaN with fewer than min_periods observations, and
\* (ddof = 1) with fewer than 2 observations
StdDefined(i, w, min_periods) ==
    WindowCount(i, w) >= min_periods /\ WindowCount(i, w) >= 2

\* std <= tol, i.e. (n*S2 - S1^2) / (n*(n-1)) <= (tn/td)^2, for a defined std
StdLe(s, i, w, t) ==
    LET lo == WindowLo(i, w)
        n  == WindowCount(i, w)
        s1 == SumRange(s, lo, i)
        s2 == SumRange([x \in 1 .. Len(s) |-> s[x] * s[x]], lo, i)
    IN  t[2] * t[2] * (n * s2 - s1 * s1) <= t[1] * t[1] * n * (n - 1)

\* rolling_std.le(tol) is False where rolling_std is NaN; fillna(False) then
\* finds nothing left to fill
detect_flat_mask(s, w, t, min_periods) ==
    [ i \in 1 .. Len(s) |-> StdDefined(i, w, min_periods) /\ StdLe(s, i, w, t) ]

----------------------------------------------------------------------------
(* FindFlats.clean_mask *)

\* while j < N and arr[j] == v: j += 1
RECURSIVE RunEnd(_, _, _)
RunEnd(arr, j, v) ==
    IF j <= Len(arr) /\ arr[j] = v THEN RunEnd(arr, j + 1, v) ELSE j

\* arr[a:b] = v
SetRange(arr, a, b, v) ==
    [ x \in 1 .. Len(arr) |-> IF a <= x /\ x < b THEN v ELSE arr[x] ]

\* mutant: a hole one sample longer than max_hole is filled too
RECURSIVE FillHolesFrom_OneMore(_, _, _)
FillHolesFrom_OneMore(arr, i, h) ==
    IF i > Len(arr) THEN arr
    ELSE IF arr[i]
         THEN LET j == RunEnd(arr, i, TRUE)
                  k == RunEnd(arr, j, FALSE)
                  hole_length == k - j
              IN  FillHolesFrom_OneMore(IF hole_length <= h + 1
                                        THEN SetRange(arr, j, k, TRUE) ELSE arr,
                                        k, h)
         ELSE FillHolesFrom_OneMore(arr, i + 1, h)

\* mutant: the scan resumes one sample after the hole (i = k + 1), so a
\* one-sample True block after a hole is skipped together with its hole
RECURSIVE FillHolesFrom_SkipOne(_, _, _)
FillHolesFrom_SkipOne(arr, i, h) ==
    IF i > Len(arr) THEN arr
    ELSE IF arr[i]
         THEN LET j == RunEnd(arr, i, TRUE)
                  k == RunEnd(arr, j, FALSE)
                  hole_length == k - j
              IN  FillHolesFrom_SkipOne(IF hole_length <= h
                                        THEN SetRange(arr, j, k, TRUE) ELSE arr,
                                        k + 1, h)
         ELSE FillHolesFrom_SkipOne(arr, i + 1, h)

\* mutant: a hole of exactly max_hole samples is left open
RECURSIVE FillHolesFrom_Strict(_, _, _)
FillHolesFrom_Strict(arr, i, h) ==
    IF i > Len(arr) THEN arr
    ELSE IF arr[i]
         THEN LET j == RunEnd(arr, i, TRUE)
                  k == RunEnd(arr, j, FALSE)
                  hole_length == k - j
              IN  FillHolesFrom_Strict(IF hole_length < h
                                       THEN SetRange(arr, j, k, TRUE) ELSE arr,
                                       k, h)
         ELSE FillHolesFrom_Strict(arr, i + 1, h)

\* the loop "1) fill small holes", entered with loop variable i
RECURSIVE FillHolesFrom(_, _, _)
FillHolesFrom(arr, i, h) ==
    IF i > Len(arr) THEN arr
    ELSE IF arr[i]
         THEN LET j == RunEnd(arr, i, TRUE)
                  k == RunEnd(arr, j, FALSE)
                  hole_length == k - j
              IN  FillHolesFrom(IF hole_length <= h
                                THEN SetRange(arr, j, k, TRUE) ELSE arr,
                                k, h)
         ELSE FillHolesFrom(arr, i + 1, h)

FillHoles(arr, h) == FillHolesFrom(arr, 1, h)

\* mutant: the island length is taken one too short (j - i - 1)
RECURSIVE RemoveIslandsFrom_ShortCount(_, _, _)
RemoveIslandsFrom_ShortCount(arr, i, m) ==
    IF i > Len(arr) THEN arr
    ELSE IF ~arr[i]
         THEN RemoveIslandsFrom_ShortCount(arr, RunEnd(arr, i, FALSE), m)
         ELSE LET j == RunEnd(arr, i, TRUE)
                  island_length == j - i - 1
              IN  RemoveIslandsFrom_ShortCount(IF island_length <= m
                                               THEN SetRange(arr, i, j, FALSE) ELSE arr,
                                               j, m)

\* mutant: an island of exactly max_island samples is kept
RECURSIVE RemoveIslandsFrom_Strict(_, _, _)
RemoveIslandsFrom_Strict(arr, i, m) ==
    IF i > Len(arr) THEN arr
    ELSE IF ~arr[i]
         THEN RemoveIslandsFrom_Strict(arr, RunEnd(arr, i, FALSE), m)
         ELSE LET j == RunEnd(arr, i, TRUE)
                  island_length == j - i
              IN  RemoveIslandsFrom_Strict(IF island_length < m
                                           THEN SetRange(arr, i, j, FALSE) ELSE arr,
                                           j, m)

\* the loop "2) remove small islands", entered with loop variable i
RECURSIVE RemoveIslandsFrom(_, _, _)
RemoveIslandsFrom(arr, i, m) ==
    IF i > Len(arr) THEN arr
    ELSE IF ~arr[i]
         THEN RemoveIslandsFrom(arr, RunEnd(arr, i, FALSE), m)
         ELSE LET j == RunEnd(arr, i, TRUE)
                  island_length == j - i
              IN  RemoveIslandsFrom(IF island_length <= m
                                    THEN SetRange(arr, i, j, FALSE) ELSE arr,
                                    j, m)

RemoveIslands(arr, m) == RemoveIslandsFrom(arr, 1, m)

clean_mask(mask, h, m) == RemoveIslands(FillHoles(mask, h), m)

----------------------------------------------------------------------------
(* FindFlats.extract_zones, FindFlats.filter_zones_by_size *)

\* the for loop over enumerate(mask), at index i (Python position i - 1),
\* and the closing "if in_zone" after it
\* mutant: a run still open at the end of the mask is not closed
RECURSIVE ExtractFrom_NoTail(_, _, _, _, _)
ExtractFrom_NoTail(mask, i, zs, in_zone, start) ==
    IF i > Len(mask)
    THEN zs
    ELSE IF mask[i] /\ ~in_zone
         THEN ExtractFrom_NoTail(mask, i + 1, zs, TRUE, i - 1)
         ELSE IF ~mask[i] /\ in_zone
              THEN ExtractFrom_NoTail(mask, i + 1, Append(zs, << start, i - 1 >>), FALSE, start)
              ELSE ExtractFrom_NoTail(mask, i + 1, zs, in_zone, start)

RECURSIVE ExtractFrom(_, _, _, _, _)
ExtractFrom(mask, i, zs, in_zone, start) ==
    IF i > Len(mask)
    THEN IF in_zone THEN Append(zs, << start, Len(mask) >>) ELSE zs
    ELSE IF mask[i] /\ ~in_zone
         THEN ExtractFrom(mask, i + 1, zs, TRUE, i - 1)
         ELSE IF ~mask[i] /\ in_zone
              THEN ExtractFrom(mask, i + 1, Append(zs, << start, i - 1 >>), FALSE, start)
              ELSE ExtractFrom(mask, i + 1, zs, in_zone, start)

extract_zones(mask) == ExtractFrom(mask, 1, << >>, FALSE, 0)

\* mutant: the size test is inverted
filter_zones_by_size_Inverted(zs, m) ==
    SelectSeq(zs, LAMBDA z : (z[2] - z[1]) < m)

\* mutant: a zone of exactly min_size samples is dropped
filter_zones_by_size_Strict(zs, m) ==
    SelectSeq(zs, LAMBDA z : (z[2] - z[1]) > m)

filter_zones_by_size(zs, m) ==
    SelectSeq(zs, LAMBDA z : (z[2] - z[1]) >= m)

----------------------------------------------------------------------------
(* FindFlats2.detect_transitions *)

\* mutant: the forward difference (diff(-1)), undefined at the last sample
Deriv_Forward(s) ==
    [ i \in 1 .. Len(s) |-> IF i = Len(s) THEN NaN ELSE << Abs(s[i + 1] - s[i]), 1 >> ]

\* deriv = series.diff().abs(): undefined at the first sample
Deriv(s) ==
    [ i \in 1 .. Len(s) |-> IF i = 1 THEN NaN ELSE << Abs(s[i] - s[i - 1]), 1 >> ]

\* smooth = deriv.rolling(window = w, min_periods = 1).mean(): the mean of the
\* defined values of the trailing window, NaN when it holds none
Smooth(d, w) ==
    [ i \in 1 .. Len(d) |->
        LET lo == WindowLo(i, w)
            c  == Cardinality({ x \in lo .. i : ~IsNaN(d[x]) })
            sm == SumRange([x \in 1 .. Len(d) |-> d[x][1]], lo, i)
        IN  IF c < 1 THEN NaN ELSE << sm, c >> ]

\* the mean of two rationals (the median of an even number of values)
RatMid(a, b) == << a[1] * b[2] + b[1] * a[2], 2 * a[2] * b[2] >>

RatScale(q, k) == << k * q[1], q[2] >>

\* smooth.median(): the median of the defined values, NaN when there are none
Median(sm) ==
    LET V == { i \in 1 .. Len(sm) : ~IsNaN(sm[i]) }
        n == Cardinality(V)
        Kth(r) == sm[CHOOSE i \in V :
                        /\ Cardinality({ j \in V : RatLt(sm[j], sm[i]) }) < r
                        /\ r <= Cardinality({ j \in V : ~RatGt(sm[j], sm[i]) })]
    IN  IF n = 0 THEN NaN
        ELSE IF n % 2 = 1 THEN Kth((n + 1) \div 2)
        ELSE RatMid(Kth(n \div 2), Kth(n \div 2 + 1))

\* mutant: the automatic threshold is the median itself
ChooseThreshold_NoFactor(sm, thr) ==
    IF IsNaN(thr) THEN Median(sm) ELSE thr

\* if diff_threshold is None: diff_threshold = smooth.median() * 3
ChooseThreshold(sm, thr) ==
    IF IsNaN(thr) THEN RatScale(Median(sm), AutoFactor) ELSE thr

\* edges = smooth[smooth > diff_threshold].index: the row LABELS of the
\* samples above the threshold, in row order
Edges(sm, thr, base) ==
    LET idx == SelectSeq([i \in 1 .. Len(sm) |-> i], LAMBDA i : RatGt(sm[i], thr))
    IN  [ k \in 1 .. Len(idx) |-> base + idx[k] - 1 ]

\* mutant: a candidate exactly diff_window after the last kept one is kept
RECURSIVE CutsFrom_AtLeast(_, _, _, _, _, _)
CutsFrom_AtLeast(edges, k, cuts, last, has_last, w) ==
    IF k > Len(edges) THEN cuts
    ELSE IF ~has_last \/ edges[k] - last >= w
         THEN CutsFrom_AtLeast(edges, k + 1, Append(cuts, edges[k]), edges[k], TRUE, w)
         ELSE CutsFrom_AtLeast(edges, k + 1, cuts, last, has_last, w)

\* the loop over edges, at its k-th element; has_last is FALSE while last = -inf
RECURSIVE CutsFrom(_, _, _, _, _, _)
CutsFrom(edges, k, cuts, last, has_last, w) ==
    IF k > Len(edges) THEN cuts
    ELSE IF ~has_last \/ edges[k] - last > w
         THEN CutsFrom(edges, k + 1, Append(cuts, edges[k]), edges[k], TRUE, w)
         ELSE CutsFrom(edges, k + 1, cuts, last, has_last, w)

detect_transitions(s, base, w, thr) ==
    LET sm == Smooth(Deriv(s), w)
    IN  CutsFrom(Edges(sm, ChooseThreshold(sm, thr), base), 1, << >>, 0, FALSE, w)

----------------------------------------------------------------------------
(* FindFlats2.make_step_zones *)

\* all_pts = [0] + list(transitions) + [len(series)]
AllPts(s, tr) == << 0 >> \o tr \o << Len(s) >>

make_step_zones(s, tr, m) ==
    LET all_pts == AllPts(s, tr)
        pairs   == [ k \in 1 .. Len(all_pts) - 1 |-> << all_pts[k], all_pts[k + 1] >> ]
    IN  SelectSeq(pairs, LAMBDA z : (z[2] - z[1]) >= m)

----------------------------------------------------------------------------
(* States and steps *)

\* nothing computed yet
FlatIdle ==
    /\ window_size = 0 /\ tol = << 0, 1 >>
    /\ max_hole = 0 /\ max_island = 0
    /\ raw_mask = << >> /\ filled = << >> /\ cleaned = << >> /\ recleaned = << >>
    /\ cand_zones = << >>

StepIdle ==
    /\ diff_window = 0 /\ diff_threshold = NaN /\ transitions = << >>
    /\ step_edges = << >>

\* no table loaded
NormIdle ==
    /\ n_path = "none" /\ n_mode = "none"
    /\ n_raw = [ time |-> << >>, val |-> << >> ]
    /\ n_df = [ index |-> << >>, time |-> << >>, val |-> << >>, elapsed |-> << >> ]
    /\ n_status = "none"

\* a slot of the heap holding no object
NoObject == [ dtype |-> "none", index |-> 0, data |-> << >> ]

\* the names an operation binds; 0 is an unbound name
NoRefs == [ mask |-> 0, arr |-> 0, cleaned |-> 0, zones |-> 0, kept |-> 0,
            series |-> 0, transitions |-> 0 ]

\* no object created
HeapIdle ==
    /\ heap = [ id \in 1 .. HeapSize |-> NoObject ]
    /\ obj_count = 0
    /\ refs = NoRefs

\* maximum=None: no upper limit
NoMaximum == -1

\* get_non_negative_integers not called
PromptIdle ==
    /\ multiple = FALSE /\ allowBlank = TRUE /\ maximum = NoMaximum
    /\ user_input = << >> /\ prompts = 0
    /\ gi_status = "none" /\ gi_result = << >>

\* the buttons of _build_controls that start an operation
Buttons == { "browse", "load", "confirm", "save", "export" }

\* the application as constructed: nothing loaded, every button enabled
LoadIdle ==
    /\ btn_state = [ b \in Buttons |-> "normal" ]
    /\ main_pc = "idle"
    /\ attempts = 0
    /\ date_outcome = [ a \in 1 .. MaxAttempts |-> "none" ]
    /\ worker_pc = [ a \in 1 .. MaxAttempts |-> "unborn" ]
    /\ collected_date_event = FALSE
    /\ bad_date_event = FALSE
    /\ finished_loading_event = FALSE
    /\ gif_running = FALSE
    /\ ready_calls = 0
    /\ df_set = FALSE
    /\ has_zones = FALSE
    /\ rs_active = FALSE

\* no zone drawn
ZonesIdle ==
    /\ gui_zones = << >>
    /\ min_var = 0

\* no zone confirmed
SpectrumIdle ==
    /\ sp_routine = "none"
    /\ sp_times = << >> /\ sp_vals = << >> /\ sp_zone = << 0, 0 >>
    /\ sp_dt = NaN /\ sp_freqs = << >> /\ sp_amps = << >>
    /\ sp_status = "none"

(* ---- flat detection: FindFlats.find_flats, one pressure column ---- *)

InitFlat ==
    /\ series \in SeriesInputs
    /\ index_base = 0
    /\ min_size = 0
    /\ zones = << >>
    /\ FlatIdle /\ StepIdle /\ HeapIdle /\ PromptIdle /\ LoadIdle /\ ZonesIdle /\ NormIdle /\ SpectrumIdle
    /\ pc = "prompt"

\* get_user_thresholds returns only values that passed its three checks
GetUserThresholds ==
    /\ pc = "prompt"
    /\ \E w \in WindowSizes, t \in Tols, m \in 1 .. MaxMinSize :
          /\ window_size' = w
          /\ tol' = t
          /\ min_size' = m
    /\ pc' = "detect"
    /\ UNCHANGED << promptVars, heapVars, loadVars, zoneVars, step_edges, normVars, spVars, series, index_base, max_hole, max_island, raw_mask, filled,
                    cleaned, recleaned, cand_zones, zones, diff_window,
                    diff_threshold, transitions >>

DetectFlatMask ==
    /\ pc = "detect"
    /\ raw_mask' = detect_flat_mask(series, window_size, tol, 1)
    /\ pc' = "clean"
    /\ UNCHANGED << promptVars, heapVars, loadVars, zoneVars, step_edges, normVars, spVars, series, index_base, window_size, tol, min_size, max_hole,
                    max_island, filled, cleaned, recleaned, cand_zones, zones,
                    diff_window, diff_threshold, transitions >>

CleanMask ==
    /\ pc = "clean"
    /\ max_hole' = window_size \div 2
    /\ max_island' = window_size \div 10
    /\ filled' = FillHoles(raw_mask, max_hole')
    /\ cleaned' = clean_mask(raw_mask, max_hole', max_island')
    /\ pc' = "extract"
    /\ UNCHANGED << promptVars, heapVars, loadVars, zoneVars, step_edges, normVars, spVars, series, index_base, window_size, tol, min_size, raw_mask,
                    recleaned, cand_zones, zones, diff_window, diff_threshold,
                    transitions >>

ExtractZones ==
    /\ pc = "extract"
    /\ cand_zones' = extract_zones(cleaned)
    /\ pc' = "filter"
    /\ UNCHANGED << promptVars, heapVars, loadVars, zoneVars, step_edges, normVars, spVars, series, index_base, window_size, tol, min_size, max_hole,
                    max_island, raw_mask, filled, cleaned, recleaned, zones,
                    diff_window, diff_threshold, transitions >>

FilterZones ==
    /\ pc = "filter"
    /\ zones' = filter_zones_by_size(cand_zones, min_size)
    /\ pc' = "review"
    /\ UNCHANGED << promptVars, heapVars, loadVars, zoneVars, step_edges, normVars, spVars, series, index_base, window_size, tol, min_size, max_hole,
                    max_island, raw_mask, filled, cleaned, recleaned, cand_zones,
                    diff_window, diff_threshold, transitions >>

\* "Are you happy with these flat zones?": y
ReviewAccept ==
    /\ pc = "review"
    /\ pc' = "done"
    /\ UNCHANGED << promptVars, heapVars, loadVars, zoneVars, step_edges, normVars, spVars, series, index_base, window_size, tol, min_size, max_hole,
                    max_island, raw_mask, filled, cleaned, recleaned, cand_zones,
                    zones, diff_window, diff_threshold, transitions >>

\* anything else: the while loop starts over and rebinds every local
ReviewReject ==
    /\ pc = "review"
    /\ pc' = "prompt"
    /\ window_size' = 0 /\ tol' = << 0, 1 >> /\ min_size' = 0
    /\ max_hole' = 0 /\ max_island' = 0
    /\ raw_mask' = << >> /\ filled' = << >> /\ cleaned' = << >>
    /\ cand_zones' = << >> /\ zones' = << >>
    /\ UNCHANGED << promptVars, heapVars, loadVars, zoneVars, step_edges, normVars, spVars, series, index_base, recleaned, diff_window, diff_threshold,
                    transitions >>

NextFlat ==
    \/ GetUserThresholds
    \/ DetectFlatMask
    \/ CleanMask
    \/ ExtractZones
    \/ FilterZones
    \/ ReviewAccept
    \/ ReviewReject

Spec == InitFlat /\ [][NextFlat]_vars

(* ---- clean_mask on any mask, and on its own result ---- *)

InitClean ==
    /\ series = << >> /\ index_base = 0
    /\ window_size = 0 /\ tol = << 0, 1 >> /\ min_size = 0
    /\ raw_mask \in MaskInputs
    /\ max_hole \in 0 .. MaxHole
    /\ max_island \in 0 .. MaxIsland
    /\ filled = << >> /\ cleaned = << >> /\ recleaned = << >>
    /\ cand_zones = << >> /\ zones = << >>
    /\ StepIdle /\ HeapIdle /\ PromptIdle /\ LoadIdle /\ ZonesIdle /\ NormIdle /\ SpectrumIdle
    /\ pc = "c_fill"

FillSmallHoles ==
    /\ pc = "c_fill"
    /\ filled' = FillHoles(raw_mask, max_hole)
    /\ pc' = "c_islands"
    /\ UNCHANGED << promptVars, heapVars, loadVars, zoneVars, step_edges, normVars, spVars, series, index_base, window_size, tol, min_size, max_hole,
                    max_island, raw_mask, cleaned, recleaned, cand_zones, zones,
                    diff_window, diff_threshold, transitions >>

RemoveSmallIslands ==
    /\ pc = "c_islands"
    /\ cleaned' = RemoveIslands(filled, max_island)
    /\ pc' = "c_again"
    /\ UNCHANGED << promptVars, heapVars, loadVars, zoneVars, step_edges, normVars, spVars, series, index_base, window_size, tol, min_size, max_hole,
                    max_island, raw_mask, filled, recleaned, cand_zones, zones,
                    diff_window, diff_threshold, transitions >>

CleanAgain ==
    /\ pc = "c_again"
    /\ recleaned' = clean_mask(cleaned, max_hole, max_island)
    /\ pc' = "c_done"
    /\ UNCHANGED << promptVars, heapVars, loadVars, zoneVars, step_edges, normVars, spVars, series, index_base, window_size, tol, min_size, max_hole,
                    max_island, raw_mask, filled, cleaned, cand_zones, zones,
                    diff_window, diff_threshold, transitions >>

NextClean ==
    \/ FillSmallHoles
    \/ RemoveSmallIslands
    \/ CleanAgain

SpecClean == InitClean /\ [][NextClean]_vars

(* ---- extract_zones on any mask ---- *)

InitExtract ==
    /\ series = << >> /\ index_base = 0
    /\ window_size = 0 /\ tol = << 0, 1 >> /\ min_size = 0
    /\ max_hole = 0 /\ max_island = 0
    /\ raw_mask = << >> /\ filled = << >> /\ recleaned = << >>
    /\ cleaned \in MaskInputs
    /\ cand_zones = << >> /\ zones = << >>
    /\ StepIdle /\ HeapIdle /\ PromptIdle /\ LoadIdle /\ ZonesIdle /\ NormIdle /\ SpectrumIdle
    /\ pc = "e_extract"

ExtractGiven ==
    /\ pc = "e_extract"
    /\ cand_zones' = extract_zones(cleaned)
    /\ pc' = "e_done"
    /\ UNCHANGED << promptVars, heapVars, loadVars, zoneVars, step_edges, normVars, spVars, series, index_base, window_size, tol,
                    min_size, max_hole, max_island, raw_mask, filled, cleaned,
                    recleaned, zones, diff_window, diff_threshold, transitions >>

NextExtract == ExtractGiven

SpecExtract == InitExtract /\ [][NextExtract]_vars

(* ---- filter_zones_by_size on any zone list ---- *)

InitFilter ==
    /\ series = << >> /\ index_base = 0
    /\ min_size \in 0 .. MaxMinSize
    /\ cand_zones \in ZoneInputs
    /\ zones = << >>
    /\ window_size = 0 /\ tol = << 0, 1 >>
    /\ max_hole = 0 /\ max_island = 0
    /\ raw_mask = << >> /\ filled = << >> /\ cleaned = << >> /\ recleaned = << >>
    /\ StepIdle /\ HeapIdle /\ PromptIdle /\ LoadIdle /\ ZonesIdle /\ NormIdle /\ SpectrumIdle
    /\ pc = "f_filter"

FilterGiven ==
    /\ pc = "f_filter"
    /\ zones' = filter_zones_by_size(cand_zones, min_size)
    /\ pc' = "f_done"
    /\ UNCHANGED << promptVars, heapVars, loadVars, zoneVars, step_edges, normVars, spVars, series, index_base, window_size, tol, min_size, max_hole,
                    max_island, raw_mask, filled, cleaned, recleaned, cand_zones,
                    diff_window, diff_threshold, transitions >>

NextFilter == FilterGiven

SpecFilter == InitFilter /\ [][NextFilter]_vars

(* ---- step detection: AlphaAnalysis.main, lines 32-49 ---- *)

\* the Series is either a plain one (labels 0, 1, ...) or a column of the
\* table dataCollect returns (labels IlocStart, IlocStart + 1, ...)
InitStep ==
    /\ series \in SeriesInputs
    /\ index_base \in { 0, IlocStart }
    /\ min_size = 0
    /\ zones = << >>
    /\ FlatIdle /\ StepIdle /\ HeapIdle /\ PromptIdle /\ LoadIdle /\ ZonesIdle /\ NormIdle /\ SpectrumIdle
    /\ pc = "s_params"

ReadStepParams ==
    /\ pc = "s_params"
    /\ \E w \in 1 .. MaxDiffWindow, t \in Thresholds, m \in 1 .. MaxMinSize :
          /\ diff_window' = w
          /\ diff_threshold' = t
          /\ min_size' = m
    /\ pc' = "s_detect"
    /\ UNCHANGED << promptVars, heapVars, loadVars, zoneVars, step_edges, normVars, spVars, series, index_base, window_size, tol, max_hole, max_island,
                    raw_mask, filled, cleaned, recleaned, cand_zones, zones,
                    transitions >>

DetectTransitions ==
    /\ pc = "s_detect"
    /\ transitions' = detect_transitions(series, index_base, diff_window, diff_threshold)
    /\ step_edges' = LET sm == Smooth(Deriv(series), diff_window)
                     IN  Edges(sm, ChooseThreshold(sm, diff_threshold), index_base)
    /\ pc' = "s_zones"
    /\ UNCHANGED << promptVars, heapVars, loadVars, zoneVars, normVars, spVars, series, index_base, window_size, tol, min_size, max_hole,
                    max_island, raw_mask, filled, cleaned, recleaned, cand_zones,
                    zones, diff_window, diff_threshold >>

MakeStepZones ==
    /\ pc = "s_zones"
    /\ zones' = make_step_zones(series, transitions, min_size)
    /\ pc' = "s_done"
    /\ UNCHANGED << promptVars, heapVars, loadVars, zoneVars, step_edges, normVars, spVars, series, index_base, window_size, tol, min_size, max_hole,
                    max_island, raw_mask, filled, cleaned, recleaned, cand_zones,
                    diff_window, diff_threshold, transitions >>

NextStep ==
    \/ ReadStepParams
    \/ DetectTransitions
    \/ MakeStepZones

SpecStep == InitStep /\ [][NextStep]_vars

(* ---- step detection with whatever the user types at the prompts ---- *)

\* float(input(...) or np.nan): any number, or NaN for the automatic threshold
TypedThresholds == Thresholds \cup { << -1, 1 >> }

\* int(input(...) or 5), float(input(...) or np.nan), int(input(...) or 100):
\* the values are taken as typed
ReadTypedStepParams ==
    /\ pc = "s_params"
    /\ \E w \in 0 .. MaxDiffWindow, t \in TypedThresholds, m \in 0 .. MaxMinSize :
          /\ diff_window' = w
          /\ diff_threshold' = t
          /\ min_size' = m
    /\ pc' = "s_detect"
    /\ UNCHANGED << promptVars, heapVars, loadVars, zoneVars, step_edges, normVars, spVars, series, index_base, window_size, tol,
                    max_hole, max_island, raw_mask, filled, cleaned, recleaned,
                    cand_zones, zones, transitions >>

\* rolling(window=diff_window, min_periods=1) accepts the window
DetectWithWindow ==
    /\ diff_window >= 1
    /\ DetectTransitions

\* rolling(window=0, min_periods=1) raises ValueError, after series.diff().abs()
DetectRaises ==
    /\ pc = "s_detect"
    /\ diff_window < 1
    /\ pc' = "s_error"
    /\ UNCHANGED << promptVars, heapVars, loadVars, zoneVars, step_edges, normVars, spVars, series, index_base, window_size, tol,
                    min_size, max_hole, max_island, raw_mask, filled, cleaned,
                    recleaned, cand_zones, zones, diff_window, diff_threshold,
                    transitions >>

NextStepTyped ==
    \/ ReadTypedStepParams
    \/ DetectWithWindow
    \/ DetectRaises
    \/ MakeStepZones

SpecStepTyped == InitStep /\ [][NextStepTyped]_vars

(* ---- the detection operations on objects: who writes where ---- *)

\* astype(int) of a mask's values: False is 0, True is 1
Cells(mask) == [ k \in 1 .. Len(mask) |-> IF mask[k] THEN 1 ELSE 0 ]

\* astype(bool) of an array: a cell is True when it is not 0
Truth(cells) == [ k \in 1 .. Len(cells) |-> cells[k] # 0 ]

\* mask.to_numpy(): the array is a view of the Series' own values
ToNumpyRef(ref) == ref

\* a variant whose astype hands back the array it was given
AsTypeRef_View(ref, n) == ref

\* .astype(int): always a newly allocated array (copy=True is the default)
AsTypeRef(ref, n) == n + 1

\* a Series or a list the caller hands to an operation
InitObjects ==
    /\ index_base \in { 0, IlocStart }
    /\ window_size = 0 /\ tol = << 0, 1 >>
    /\ min_size \in { 1, MaxMinSize }
    /\ raw_mask = << >> /\ filled = << >> /\ cleaned = << >> /\ recleaned = << >>
    /\ cand_zones = << >> /\ zones = << >>
    /\ transitions = << >> /\ step_edges = << >>
    /\ series = << >>
    /\ obj_count = 1
    /\ \/ /\ \E m \in MaskInputs :
                heap = [ id \in 1 .. HeapSize |->
                           IF id = 1
                           THEN [ dtype |-> "bool", index |-> index_base, data |-> Cells(m) ]
                           ELSE NoObject ]
          /\ refs = [ NoRefs EXCEPT !.mask = 1 ]
          /\ max_hole \in 0 .. MaxHole
          /\ max_island \in 0 .. MaxIsland
          /\ diff_window = 0 /\ diff_threshold = NaN
          /\ pc = "h_copy"
       \/ /\ \E s \in SeriesInputs :
                heap = [ id \in 1 .. HeapSize |->
                           IF id = 1
                           THEN [ dtype |-> "float", index |-> index_base, data |-> s ]
                           ELSE NoObject ]
          /\ refs = [ NoRefs EXCEPT !.series = 1 ]
          /\ max_hole = 0 /\ max_island = 0
          /\ diff_window \in 1 .. MaxDiffWindow
          /\ diff_threshold \in Thresholds
          /\ pc = "h_detect"
    /\ PromptIdle /\ LoadIdle /\ ZonesIdle /\ NormIdle /\ SpectrumIdle

\* clean_mask line 50: arr = mask.to_numpy().astype(int)
CopyMask ==
    /\ pc = "h_copy"
    /\ LET a == AsTypeRef(ToNumpyRef(refs.mask), obj_count)
       IN  /\ heap' = [ heap EXCEPT ![a] = [ dtype |-> "int", index |-> 0,
                                            data |-> heap[refs.mask].data ] ]
           /\ refs' = [ refs EXCEPT !.arr = a ]
           /\ obj_count' = Max(obj_count, a)
    /\ pc' = "h_fill"
    /\ UNCHANGED << promptVars, loadVars, zoneVars, normVars, spVars, detectVars >>

\* clean_mask lines 53-69: arr[j:k] = 1 writes into arr
FillHolesInPlace ==
    /\ pc = "h_fill"
    /\ heap' = [ heap EXCEPT ![refs.arr].data =
                     Cells(FillHoles(Truth(heap[refs.arr].data), max_hole)) ]
    /\ pc' = "h_islands"
    /\ UNCHANGED << obj_count, refs, promptVars, loadVars, zoneVars, normVars, spVars, detectVars >>

\* clean_mask lines 71-84: arr[i:j] = 0 writes into arr
RemoveIslandsInPlace ==
    /\ pc = "h_islands"
    /\ heap' = [ heap EXCEPT ![refs.arr].data =
                     Cells(RemoveIslands(Truth(heap[refs.arr].data), max_island)) ]
    /\ pc' = "h_return"
    /\ UNCHANGED << obj_count, refs, promptVars, loadVars, zoneVars, normVars, spVars, detectVars >>

\* clean_mask line 91: return pd.Series(arr.astype(bool), index=mask.index)
ReturnMask ==
    /\ pc = "h_return"
    /\ heap' = [ heap EXCEPT ![obj_count + 1] =
                     [ dtype |-> "bool", index |-> heap[refs.mask].index,
                       data |-> Cells(Truth(heap[refs.arr].data)) ] ]
    /\ refs' = [ refs EXCEPT !.cleaned = obj_count + 1 ]
    /\ obj_count' = obj_count + 1
    /\ pc' = "h_extract"
    /\ UNCHANGED << promptVars, loadVars, zoneVars, normVars, spVars, detectVars >>

\* extract_zones: zones = [] and zones.append(...) build a new list
ExtractToNewList ==
    /\ pc = "h_extract"
    /\ heap' = [ heap EXCEPT ![obj_count + 1] =
                     [ dtype |-> "list", index |-> 0,
                       data |-> extract_zones(Truth(heap[refs.cleaned].data)) ] ]
    /\ refs' = [ refs EXCEPT !.zones = obj_count + 1 ]
    /\ obj_count' = obj_count + 1
    /\ pc' = "h_filter"
    /\ UNCHANGED << promptVars, loadVars, zoneVars, normVars, spVars, detectVars >>

\* filter_zones_by_size: the list comprehension is a new list
FilterToNewList ==
    /\ pc = "h_filter"
    /\ heap' = [ heap EXCEPT ![obj_count + 1] =
                     [ dtype |-> "list", index |-> 0,
                       data |-> filter_zones_by_size(heap[refs.zones].data, min_size) ] ]
    /\ refs' = [ refs EXCEPT !.kept = obj_count + 1 ]
    /\ obj_count' = obj_count + 1
    /\ pc' = "h_done"
    /\ UNCHANGED << promptVars, loadVars, zoneVars, normVars, spVars, detectVars >>

\* detect_transitions: diff, abs, rolling and mean each return a new Series,
\* cuts = [] is a new list
DetectToNewList ==
    /\ pc = "h_detect"
    /\ heap' = [ heap EXCEPT ![obj_count + 1] =
                     [ dtype |-> "list", index |-> 0,
                       data |-> detect_transitions(heap[refs.series].data,
                                                   heap[refs.series].index,
                                                   diff_window, diff_threshold) ] ]
    /\ refs' = [ refs EXCEPT !.transitions = obj_count + 1 ]
    /\ obj_count' = obj_count + 1
    /\ pc' = "h_zones"
    /\ UNCHANGED << promptVars, loadVars, zoneVars, normVars, spVars, detectVars >>

\* make_step_zones: list(transitions) copies, zones = [] is a new list
StepZonesToNewList ==
    /\ pc = "h_zones"
    /\ heap' = [ heap EXCEPT ![obj_count + 1] =
                     [ dtype |-> "list", index |-> 0,
                       data |-> make_step_zones(heap[refs.series].data,
                                                heap[refs.transitions].data,
                                                min_size) ] ]
    /\ refs' = [ refs EXCEPT !.kept = obj_count + 1 ]
    /\ obj_count' = obj_count + 1
    /\ pc' = "h_done"
    /\ UNCHANGED << promptVars, loadVars, zoneVars, normVars, spVars, detectVars >>

NextObjects ==
    \/ CopyMask
    \/ FillHolesInPlace
    \/ RemoveIslandsInPlace
    \/ ReturnMask
    \/ ExtractToNewList
    \/ FilterToNewList
    \/ DetectToNewList
    \/ StepZonesToNewList

SpecObjects == InitObjects /\ [][NextObjects]_vars

(* ---- DataCollection.get_non_negative_integers ---- *)

\* a text is the sequence of its characters
DigitChars == << "0", "1", "2", "3", "4", "5", "6", "7", "8", "9" >>

\* the characters the user types
Chars == { "0", "1", "7", " ", ",", "x" }

Texts == SeqsUpTo(Chars, MaxText)

\* get_pressure_columns(maxValue = 4)
MaxValue == 4

RECURSIVE LStrip(_)
LStrip(s) == IF s # << >> /\ Head(s) = " " THEN LStrip(Tail(s)) ELSE s

RECURSIVE RStrip(_)
RStrip(s) ==
    IF s # << >> /\ s[Len(s)] = " " THEN RStrip(SubSeq(s, 1, Len(s) - 1)) ELSE s

\* str.strip()
Strip(s) == RStrip(LStrip(s))

\* str.split(','): the pieces between the commas, empty pieces included
RECURSIVE SplitFrom(_, _, _, _)
SplitFrom(s, i, cur, out) ==
    IF i > Len(s) THEN Append(out, cur)
    ELSE IF s[i] = ","
         THEN SplitFrom(s, i + 1, << >>, Append(out, cur))
         ELSE SplitFrom(s, i + 1, Append(cur, s[i]), out)

Split(s) == SplitFrom(s, 1, << >>, << >>)

\* str.isdigit(): not empty and every character a digit
IsDigit(s) ==
    /\ Len(s) > 0
    /\ \A k \in 1 .. Len(s) : \E d \in 1 .. Len(DigitChars) : DigitChars[d] = s[k]

DigitValue(c) == (CHOOSE d \in 1 .. Len(DigitChars) : DigitChars[d] = c) - 1

\* int() of a text of digits
RECURSIVE IntOf(_)
IntOf(s) ==
    IF s = << >> THEN 0
    ELSE 10 * IntOf(SubSeq(s, 1, Len(s) - 1)) + DigitValue(s[Len(s)])

AboveMaximum(v, mx) == mx # NoMaximum /\ v > mx

\* lines 48-63: one pass of the loop body with multiple false; the value
\* returned is kept as a list of one, the returned "" as the empty list
SingleOutcome(text, blank_ok, mx) ==
    LET u == Strip(text)
    IN  IF u = << >>
        THEN IF blank_ok
             THEN [ status |-> "returned", result |-> << >> ]
             ELSE [ status |-> "raised Exception", result |-> << >> ]
        ELSE IF IsDigit(u)
             THEN IF AboveMaximum(IntOf(u), mx)
                  THEN [ status |-> "raised Exception", result |-> << >> ]
                  ELSE [ status |-> "returned", result |-> << IntOf(u) >> ]
             ELSE [ status |-> "raised Exception", result |-> << >> ]

\* lines 78-90: the loop over parts
RECURSIVE ScanParts(_, _, _, _)
ScanParts(parts, k, selected_ints, mx) ==
    IF k > Len(parts) THEN [ status |-> "returned", result |-> selected_ints ]
    ELSE LET val == Strip(parts[k])
         IN  IF ~IsDigit(val)
             THEN [ status |-> "raised ValueError", result |-> << >> ]
             ELSE IF AboveMaximum(IntOf(val), mx)
                  THEN [ status |-> "raised ValueError", result |-> << >> ]
                  ELSE ScanParts(parts, k + 1, Append(selected_ints, IntOf(val)), mx)

\* lines 66-90: one pass of the loop body with multiple true
MultipleOutcome(text, blank_ok, mx) ==
    LET u == Strip(text)
    IN  IF u = << >>
        THEN IF blank_ok
             THEN [ status |-> "returned", result |-> << >> ]
             ELSE [ status |-> "raised ValueError", result |-> << >> ]
        ELSE ScanParts(Split(u), 1, << >>, mx)

\* the call, with any arguments
InitPrompt ==
    /\ multiple \in BOOLEAN
    /\ allowBlank \in BOOLEAN
    /\ maximum \in { NoMaximum, MaxValue }
    /\ user_input = << >> /\ prompts = 0
    /\ gi_status = "prompting" /\ gi_result = << >>
    /\ series = << >> /\ index_base = 0 /\ min_size = 0 /\ zones = << >>
    /\ FlatIdle /\ StepIdle /\ HeapIdle /\ LoadIdle /\ ZonesIdle /\ NormIdle /\ SpectrumIdle
    /\ pc = "gi_prompt"

\* while True, if not multiple: lines 47-63
PromptSingle ==
    /\ pc = "gi_prompt"
    /\ gi_status = "prompting"
    /\ ~multiple
    /\ \E text \in Texts :
          /\ user_input' = text
          /\ gi_status' = SingleOutcome(text, allowBlank, maximum).status
          /\ gi_result' = SingleOutcome(text, allowBlank, maximum).result
    /\ prompts' = prompts + 1
    /\ UNCHANGED << multiple, allowBlank, maximum, heapVars, loadVars, zoneVars,
                    normVars, spVars, detectVars, pc >>

\* while True, else: lines 65-90
PromptMultiple ==
    /\ pc = "gi_prompt"
    /\ gi_status = "prompting"
    /\ multiple
    /\ \E text \in Texts :
          /\ user_input' = text
          /\ gi_status' = MultipleOutcome(text, allowBlank, maximum).status
          /\ gi_result' = MultipleOutcome(text, allowBlank, maximum).result
    /\ prompts' = prompts + 1
    /\ UNCHANGED << multiple, allowBlank, maximum, heapVars, loadVars, zoneVars,
                    normVars, spVars, detectVars, pc >>

NextPrompt ==
    \/ PromptSingle
    \/ PromptMultiple

SpecPrompt == InitPrompt /\ [][NextPrompt]_vars

(* ---- spectral analysis: the GUI's _confirm and Testing.freqAnalysis ---- *)

\* Floating point with a MantBits-bit significand and round-half-to-even,
\* least unit 1: Fl(q) is the number of the format nearest to q = n / d.
RECURSIVE FlUnit(_, _, _)
FlUnit(a, d, u) == IF a >= (2 ^ MantBits) * u * d THEN FlUnit(a, d, 2 * u) ELSE u

Fl(q) ==
    LET a   == Abs(q[1])
        u   == FlUnit(a, q[2], 1)
        f   == a \div (u * q[2])
        r   == a % (u * q[2])
        up  == 2 * r > u * q[2] \/ (2 * r = u * q[2] /\ f % 2 = 1)
        mag == (IF up THEN f + 1 ELSE f) * u
    IN  IF q[1] < 0 THEN -mag ELSE mag

\* np.add.reduce over fewer than 8 items: one rounded addition per item
RECURSIVE FlSum(_, _)
FlSum(xs, k) == IF k = 0 THEN 0 ELSE Fl(<< FlSum(xs, k - 1) + xs[k], 1 >>)

\* np.mean of a non-empty array: the rounded sum, divided and rounded
Mean(xs) == Fl(<< FlSum(xs, Len(xs)), Len(xs) >>)

\* data with no de-meaning at all
Demean_Kept(xs) == xs

\* data - np.mean(data)
Demean(xs) ==
    LET m == Mean(xs) IN [ k \in 1 .. Len(xs) |-> Fl(<< xs[k] - m, 1 >>) ]

\* 2 * cos(2 * pi * j / N) for the sample counts of the model
Cos2(j, N) ==
    CASE N = 1 -> 2
      [] N = 2 -> << 2, -2 >>[j + 1]
      [] N = 3 -> << 2, -1, -1 >>[j + 1]
      [] N = 4 -> << 2, 0, -2, 0 >>[j + 1]
      [] N = 6 -> << 2, 1, -1, -2, -1, 1 >>[j + 1]

\* 2 * |X[k]|^2 for X = fft(d): the sum over n, m of d[n] d[m] 2cos(2 pi k (n - m) / N)
Power2(d, k) ==
    LET N == Len(d)
        row(n) == SumRange([ m \in 1 .. N |->
                               d[n] * d[m] * Cos2((k * (n - m + N)) % N, N) ], 1, N)
    IN  SumRange([ n \in 1 .. N |-> row(n) ], 1, N)

\* the square of abs(X[k]) * 2 / N
AmpSq(d, k) == << 2 * Power2(d, k), Len(d) * Len(d) >>

\* np.mean(np.diff(t)): NaN for fewer than two samples
MeanDiff(t) ==
    IF Len(t) < 2 THEN NaN ELSE << t[Len(t)] - t[1], Len(t) - 1 >>

\* k / (N * dt); NaN when dt is
BinFreq(k, N, dt) == IF IsNaN(dt) THEN NaN ELSE << k * dt[2], N * dt[1] >>

\* np.fft.rfftfreq(N, d=dt): bins 0 .. N // 2
rfftfreq(N, dt) == [ i \in 1 .. (N \div 2) + 1 |-> BinFreq(i - 1, N, dt) ]

\* np.fft.fftfreq(N, d=dt): bins 0 .. (N - 1) // 2, then -(N // 2) .. -1
fftfreq(N, dt) ==
    [ i \in 1 .. N |->
        BinFreq(IF i - 1 <= (N - 1) \div 2 THEN i - 1 ELSE i - 1 - N, N, dt) ]

\* df[(df[elapsed] >= start) & (df[elapsed] <= end)]: the rows selected
RowsBetween(times, z) ==
    SelectSeq([ p \in 1 .. Len(times) |-> p ],
              LAMBDA p : times[p] >= z[1] /\ times[p] <= z[2])

\* data.iloc[lower:upper]: the rows selected
RowsSlice(times, z) ==
    SelectSeq([ p \in 1 .. Len(times) |-> p ],
              LAMBDA p : p > z[1] /\ p <= z[2])

ZoneRowsOf(routine, times, z) ==
    IF routine = "confirm" THEN RowsBetween(times, z) ELSE RowsSlice(times, z)

\* the rows of the zone under analysis
ZoneRows == ZoneRowsOf(sp_routine, sp_times, sp_zone)

SpectrumInputs ==
    { v \in SeqsUpTo(SampleValues, MaxSamples) : Len(v) \in SampleCounts }

InitSpectrum ==
    /\ series = << >> /\ index_base = 0 /\ min_size = 0 /\ zones = << >>
    /\ FlatIdle /\ StepIdle /\ HeapIdle /\ PromptIdle /\ LoadIdle /\ ZonesIdle /\ NormIdle
    /\ sp_routine \in { "confirm", "freqAnalysis" }
    /\ sp_vals \in SpectrumInputs
    /\ \E step \in SampleSteps :
          sp_times = [ p \in 1 .. Len(sp_vals) |-> step * (p - 1) ]
    /\ sp_zone \in { z \in (0 .. MaxSamples) \X (0 .. MaxSamples) :
                        Len(ZoneRowsOf(sp_routine, sp_times, z)) \in SampleCounts }
    /\ sp_dt = NaN /\ sp_freqs = << >> /\ sp_amps = << >>
    /\ sp_status = "idle"
    /\ pc = "sp_zone"

\* _confirm, the body of the loop for one zone and one pressure column
ConfirmZone ==
    /\ pc = "sp_zone" /\ sp_routine = "confirm"
    /\ LET rows == RowsBetween(sp_times, sp_zone)
           N    == Len(rows)
           data == Demean(Take(sp_vals, rows))
           dt   == MeanDiff(Take(sp_times, rows))
       IN  IF N = 0
           THEN /\ sp_status' = "empty"
                /\ UNCHANGED << promptVars, heapVars, loadVars, zoneVars, step_edges, sp_dt, sp_freqs, sp_amps >>
           ELSE /\ sp_dt' = dt
                /\ sp_freqs' = rfftfreq(N, dt)
                /\ sp_amps' = [ i \in 1 .. (N \div 2) + 1 |-> AmpSq(data, i - 1) ]
                /\ sp_status' = "plotted"
    /\ pc' = "sp_done"
    /\ UNCHANGED << promptVars, heapVars, loadVars, zoneVars, step_edges, normVars, sp_routine, sp_times, sp_vals, sp_zone, series,
                    index_base, window_size, tol, min_size, max_hole, max_island,
                    raw_mask, filled, cleaned, recleaned, cand_zones, zones,
                    diff_window, diff_threshold, transitions >>

\* Testing.freqAnalysis; np.fft.fft of an empty array raises ValueError
FreqAnalysis ==
    /\ pc = "sp_zone" /\ sp_routine = "freqAnalysis"
    /\ LET rows  == RowsSlice(sp_times, sp_zone)
           N     == Len(rows)
           y     == Demean(Take(sp_vals, rows))
           dt    == MeanDiff(Take(sp_times, rows))
           freqs == fftfreq(N, dt)
           mask  == SelectSeq([ i \in 1 .. N |-> i ],
                              LAMBDA i : ~RatLt(freqs[i], << 0, 1 >>) /\ ~IsNaN(freqs[i]))
       IN  IF N = 0
           THEN /\ sp_status' = "raised"
                /\ UNCHANGED << promptVars, heapVars, loadVars, zoneVars, step_edges, sp_dt, sp_freqs, sp_amps >>
           ELSE /\ sp_dt' = dt
                /\ sp_freqs' = Take(freqs, mask)
                /\ sp_amps' = [ i \in 1 .. Len(mask) |-> AmpSq(y, mask[i] - 1) ]
                /\ sp_status' = "plotted"
    /\ pc' = "sp_done"
    /\ UNCHANGED << promptVars, heapVars, loadVars, zoneVars, step_edges, normVars, sp_routine, sp_times, sp_vals, sp_zone, series,
                    index_base, window_size, tol, min_size, max_hole, max_island,
                    raw_mask, filled, cleaned, recleaned, cand_zones, zones,
                    diff_window, diff_threshold, transitions >>

NextSpectrum ==
    \/ ConfirmZone
    \/ FreqAnalysis

SpecSpectrum == InitSpectrum /\ [][NextSpectrum]_vars

(* ---- loading in AlphaAnalysisApp: main thread, worker threads, events ---- *)

\* the buttons _disable_controls and _enable_controls configure
SwitchedButtons == { "browse", "load", "confirm", "save" }

\* _disable_controls
DisableControls(bs) ==
    [ b \in Buttons |-> IF b \in SwitchedButtons THEN "disabled" ELSE bs[b] ]

\* _enable_controls
EnableControls(bs) ==
    [ b \in Buttons |-> IF b \in SwitchedButtons THEN "normal" ELSE bs[b] ]

\* the Tk event loop is running: at top level or inside a dialog
EventLoopRuns == main_pc \in { "idle", "prompt", "export_dialog" }

InitLoad ==
    /\ series = << >> /\ index_base = 0 /\ min_size = 0 /\ zones = << >>
    /\ FlatIdle /\ StepIdle /\ HeapIdle /\ PromptIdle /\ LoadIdle /\ ZonesIdle /\ NormIdle /\ SpectrumIdle
    /\ pc = "gui"

\* the Load button: _load_data_thread up to the date prompt
ClickLoad ==
    /\ main_pc = "idle" /\ btn_state["load"] = "normal"
    /\ attempts < MaxAttempts
    /\ attempts' = attempts + 1
    /\ btn_state' = DisableControls(btn_state)
    /\ collected_date_event' = FALSE
    /\ worker_pc' = [ worker_pc EXCEPT ![attempts + 1] = "reading" ]
    /\ date_outcome' = [ date_outcome EXCEPT ![attempts + 1] = "asked" ]
    /\ gif_running' = TRUE
    /\ main_pc' = "prompt"
    /\ UNCHANGED << bad_date_event, finished_loading_event, ready_calls, df_set,
                    has_zones, rs_active >>
    /\ UNCHANGED << promptVars, heapVars, zoneVars, normVars, spVars, detectVars, pc >>

\* the date prompt is cancelled or left blank
DateCancelled ==
    /\ main_pc = "prompt"
    /\ btn_state' = EnableControls(btn_state)
    /\ finished_loading_event' = TRUE
    /\ bad_date_event' = TRUE
    /\ collected_date_event' = TRUE
    /\ date_outcome' = [ date_outcome EXCEPT ![attempts] = "cancelled" ]
    /\ main_pc' = "idle"
    /\ UNCHANGED << attempts, worker_pc, gif_running, ready_calls, df_set,
                    has_zones, rs_active >>
    /\ UNCHANGED << promptVars, heapVars, zoneVars, normVars, spVars, detectVars, pc >>

\* the date typed does not match %Y-%m-%d
DateMalformed ==
    /\ main_pc = "prompt"
    /\ btn_state' = EnableControls(btn_state)
    /\ finished_loading_event' = TRUE
    /\ bad_date_event' = TRUE
    /\ collected_date_event' = TRUE
    /\ date_outcome' = [ date_outcome EXCEPT ![attempts] = "malformed" ]
    /\ main_pc' = "idle"
    /\ UNCHANGED << attempts, worker_pc, gif_running, ready_calls, df_set,
                    has_zones, rs_active >>
    /\ UNCHANGED << promptVars, heapVars, zoneVars, normVars, spVars, detectVars, pc >>

\* a well-formed date is typed
DateGiven ==
    /\ main_pc = "prompt"
    /\ collected_date_event' = TRUE
    /\ date_outcome' = [ date_outcome EXCEPT ![attempts] = "ok" ]
    /\ main_pc' = "idle"
    /\ UNCHANGED << btn_state, attempts, worker_pc, bad_date_event,
                    finished_loading_event, gif_running, ready_calls, df_set,
                    has_zones, rs_active >>
    /\ UNCHANGED << promptVars, heapVars, zoneVars, normVars, spVars, detectVars, pc >>

\* _process_data: the file is read into self.df, or the read fails and the
\* thread returns after its warning
WorkerRead(a) ==
    /\ worker_pc[a] = "reading"
    /\ \/ /\ worker_pc' = [ worker_pc EXCEPT ![a] = "waiting" ]
          /\ df_set' = TRUE
       \/ /\ worker_pc' = [ worker_pc EXCEPT ![a] = "read_failed" ]
          /\ UNCHANGED df_set
    /\ UNCHANGED << btn_state, main_pc, attempts, date_outcome,
                    collected_date_event, bad_date_event, finished_loading_event,
                    gif_running, ready_calls, has_zones, rs_active >>
    /\ UNCHANGED << promptVars, heapVars, zoneVars, normVars, spVars, detectVars, pc >>

\* collected_date_event.wait() returns
WorkerWake(a) ==
    /\ worker_pc[a] = "waiting"
    /\ collected_date_event
    /\ worker_pc' = [ worker_pc EXCEPT ![a] = "woke" ]
    /\ UNCHANGED << btn_state, main_pc, attempts, date_outcome,
                    collected_date_event, bad_date_event, finished_loading_event,
                    gif_running, ready_calls, df_set, has_zones, rs_active >>
    /\ UNCHANGED << promptVars, heapVars, zoneVars, normVars, spVars, detectVars, pc >>

\* collected_date_event.clear()
WorkerClear(a) ==
    /\ worker_pc[a] = "woke"
    /\ collected_date_event' = FALSE
    /\ worker_pc' = [ worker_pc EXCEPT ![a] = "check" ]
    /\ UNCHANGED << btn_state, main_pc, attempts, date_outcome, bad_date_event,
                    finished_loading_event, gif_running, ready_calls, df_set,
                    has_zones, rs_active >>
    /\ UNCHANGED << promptVars, heapVars, zoneVars, normVars, spVars, detectVars, pc >>

\* if self.bad_date_event.is_set()
WorkerCheckBad(a) ==
    /\ worker_pc[a] = "check"
    /\ worker_pc' = [ worker_pc EXCEPT ![a] =
                         IF bad_date_event THEN "bad" ELSE "process" ]
    /\ UNCHANGED << btn_state, main_pc, attempts, date_outcome,
                    collected_date_event, bad_date_event, finished_loading_event,
                    gif_running, ready_calls, df_set, has_zones, rs_active >>
    /\ UNCHANGED << promptVars, heapVars, zoneVars, normVars, spVars, detectVars, pc >>

\* self.bad_date_event.clear(); return
WorkerClearBad(a) ==
    /\ worker_pc[a] = "bad"
    /\ bad_date_event' = FALSE
    /\ worker_pc' = [ worker_pc EXCEPT ![a] = "returned" ]
    /\ UNCHANGED << btn_state, main_pc, attempts, date_outcome,
                    collected_date_event, finished_loading_event, gif_running,
                    ready_calls, df_set, has_zones, rs_active >>
    /\ UNCHANGED << promptVars, heapVars, zoneVars, normVars, spVars, detectVars, pc >>

\* the time normalization, then finished_loading_event.set() and
\* after(0, self._on_data_ready); with no parseable row .iloc[0] raises
\* IndexError and the thread dies
WorkerProcess(a) ==
    /\ worker_pc[a] = "process"
    /\ \/ /\ worker_pc' = [ worker_pc EXCEPT ![a] = "scheduled" ]
          /\ finished_loading_event' = TRUE
          /\ ready_calls' = ready_calls + 1
       \/ /\ worker_pc' = [ worker_pc EXCEPT ![a] = "crashed" ]
          /\ UNCHANGED << finished_loading_event, ready_calls >>
    /\ UNCHANGED << btn_state, main_pc, attempts, date_outcome,
                    collected_date_event, bad_date_event, gif_running, df_set,
                    has_zones, rs_active >>
    /\ UNCHANGED << promptVars, heapVars, zoneVars, normVars, spVars, detectVars, pc >>

\* _on_data_ready, run by the event loop
OnDataReady ==
    /\ EventLoopRuns
    /\ ready_calls > 0
    /\ ready_calls' = ready_calls - 1
    /\ btn_state' = EnableControls(btn_state)
    /\ has_zones' = FALSE
    /\ rs_active' = TRUE
    /\ UNCHANGED << main_pc, attempts, date_outcome, worker_pc,
                    collected_date_event, bad_date_event, finished_loading_event,
                    gif_running, df_set >>
    /\ UNCHANGED << promptVars, heapVars, zoneVars, normVars, spVars, detectVars, pc >>

\* _next_frame once finished_loading_event is set: the animation ends
NextFrame ==
    /\ EventLoopRuns
    /\ gif_running /\ finished_loading_event
    /\ finished_loading_event' = FALSE
    /\ gif_running' = FALSE
    /\ UNCHANGED << btn_state, main_pc, attempts, date_outcome, worker_pc,
                    collected_date_event, bad_date_event, ready_calls, df_set,
                    has_zones, rs_active >>
    /\ UNCHANGED << promptVars, heapVars, zoneVars, normVars, spVars, detectVars, pc >>

\* the user draws a zone with the RectangleSelector (kept by _on_select)
DrawZone ==
    /\ main_pc = "idle" /\ rs_active
    /\ ~has_zones
    /\ has_zones' = TRUE
    /\ UNCHANGED << btn_state, main_pc, attempts, date_outcome, worker_pc,
                    collected_date_event, bad_date_event, finished_loading_event,
                    gif_running, ready_calls, df_set, rs_active >>
    /\ UNCHANGED << promptVars, heapVars, zoneVars, normVars, spVars, detectVars, pc >>

\* the Export Zones button, with data and zones: _export_zones opens its
\* folder dialog
ClickExport ==
    /\ main_pc = "idle" /\ btn_state["export"] = "normal"
    /\ df_set /\ has_zones
    /\ main_pc' = "export_dialog"
    /\ UNCHANGED << btn_state, attempts, date_outcome, worker_pc,
                    collected_date_event, bad_date_event, finished_loading_event,
                    gif_running, ready_calls, df_set, has_zones, rs_active >>
    /\ UNCHANGED << promptVars, heapVars, zoneVars, normVars, spVars, detectVars, pc >>

\* _export_zones after the dialog: self.df is sliced for every zone
ExportZones ==
    /\ main_pc = "export_dialog"
    /\ main_pc' = "idle"
    /\ UNCHANGED << btn_state, attempts, date_outcome, worker_pc,
                    collected_date_event, bad_date_event, finished_loading_event,
                    gif_running, ready_calls, df_set, has_zones, rs_active >>
    /\ UNCHANGED << promptVars, heapVars, zoneVars, normVars, spVars, detectVars, pc >>

AnswerPrompt == DateCancelled \/ DateMalformed \/ DateGiven

WorkerStep(a) ==
    \/ WorkerRead(a)
    \/ WorkerWake(a)
    \/ WorkerClear(a)
    \/ WorkerCheckBad(a)
    \/ WorkerClearBad(a)
    \/ WorkerProcess(a)

NextLoad ==
    \/ ClickLoad
    \/ AnswerPrompt
    \/ \E a \in 1 .. MaxAttempts : WorkerStep(a)
    \/ OnDataReady
    \/ NextFrame
    \/ DrawZone
    \/ ClickExport
    \/ ExportZones

SpecLoad == InitLoad /\ [][NextLoad]_vars

\* threads that can run do run, queued callbacks are served, and the user
\* answers an open dialog; nobody is obliged to click a button
FairLoad ==
    /\ \A a \in 1 .. MaxAttempts : WF_vars(WorkerStep(a))
    /\ WF_vars(AnswerPrompt)
    /\ WF_vars(OnDataReady)
    /\ WF_vars(NextFrame)
    /\ WF_vars(ExportZones)

SpecLoadFair == SpecLoad /\ FairLoad

(* ---- drawing and deleting zones on the plot ---- *)

\* the first zone in list order with start <= x <= end, 0 when there is none
RECURSIVE FirstHit(_, _, _)
FirstHit(zs, x, i) ==
    IF i > Len(zs) THEN 0
    ELSE IF zs[i].start <= x /\ x <= zs[i].end THEN i
    ELSE FirstHit(zs, x, i + 1)

\* self.zones.pop(i)
PopAt(zs, i) == [ k \in 1 .. Len(zs) - 1 |-> IF k < i THEN zs[k] ELSE zs[k + 1] ]

\* mutant: the labels are left as they are
Renumber_Skip(zs) == zs

\* for idx, z in enumerate(self.zones, 1): z["label"].set_text(str(idx))
Renumber(zs) == [ k \in 1 .. Len(zs) |-> [ zs[k] EXCEPT !.label = k ] ]

InitZones ==
    /\ series = << >> /\ index_base = 0 /\ min_size = 0 /\ zones = << >>
    /\ FlatIdle /\ StepIdle /\ HeapIdle /\ PromptIdle /\ LoadIdle /\ NormIdle /\ SpectrumIdle
    /\ gui_zones = << >>
    /\ min_var \in MinSpans
    /\ pc = "z_idle"

\* _on_select(e1, e2)
OnSelect(e1, e2) ==
    /\ Len(gui_zones) < MaxGuiZones
    /\ LET x1 == IF e1 <= e2 THEN e1 ELSE e2
           x2 == IF e1 <= e2 THEN e2 ELSE e1
       IN  gui_zones' =
               IF x2 - x1 < min_var THEN gui_zones
               ELSE Append(gui_zones, [ start |-> x1, end |-> x2,
                                        label |-> Len(gui_zones) + 1 ])
    /\ pc' = "z_select"
    /\ UNCHANGED << min_var, promptVars, heapVars, loadVars, normVars, spVars, detectVars >>

\* _on_click(event)
OnClick(button, x) ==
    /\ gui_zones' =
          IF button # 3 THEN gui_zones
          ELSE LET i == FirstHit(gui_zones, x, 1)
               IN  Renumber(IF i = 0 THEN gui_zones ELSE PopAt(gui_zones, i))
    /\ pc' = "z_click"
    /\ UNCHANGED << min_var, promptVars, heapVars, loadVars, normVars, spVars, detectVars >>

\* _redraw: every zone gets a new patch and a new label str(i)
Redraw ==
    /\ gui_zones' = [ k \in 1 .. Len(gui_zones) |->
                         [ start |-> gui_zones[k].start, end |-> gui_zones[k].end,
                           label |-> k ] ]
    /\ pc' = "z_redraw"
    /\ UNCHANGED << min_var, promptVars, heapVars, loadVars, normVars, spVars, detectVars >>

NextZones ==
    \/ \E e1 \in Xs, e2 \in Xs : OnSelect(e1, e2)
    \/ \E button \in MouseButtons, x \in Xs : OnClick(button, x)
    \/ Redraw

SpecZones == InitZones /\ [][NextZones]_vars

(* ---- time normalization: the GUIs' loaders and plotFromTableData ---- *)

\* pd.to_numeric(cell, errors="coerce")
ToNumeric(c) ==
    CASE c = "1" -> << 1, 1 >>
      [] c = "2" -> << 2, 1 >>
      [] c = "4" -> << 4, 1 >>
      [] c = "7" -> << 7, 1 >>
      [] OTHER   -> NaN

\* pd.to_datetime(date + " " + cell, errors="coerce"), in seconds since the
\* midnight of the test date; NaN stands for NaT
ToDatetime(c) ==
    CASE c = "00:00:01.0" -> << 1, 1 >>
      [] c = "00:00:02.0" -> << 2, 1 >>
      [] c = "00:00:04.0" -> << 4, 1 >>
      [] OTHER            -> NaN

ToNumericCol(col) == [ k \in 1 .. Len(col) |-> ToNumeric(col[k]) ]

ToDatetimeCol(col) == [ k \in 1 .. Len(col) |-> ToDatetime(col[k]) ]

\* the positions of a column that hold a value, in row order
NotNaPos(col) ==
    SelectSeq([ p \in 1 .. Len(col) |-> p ], LAMBDA p : ~IsNaN(col[p]))

\* df.dropna(subset=[time column], inplace=True): whole rows go
Dropna(df) ==
    LET ps == NotNaPos(df.time)
    IN  [ index |-> Take(df.index, ps),
          time  |-> Take(df.time, ps),
          val   |-> Take(df.val, ps) ]

\* (col - col.iloc[0]).dt.total_seconds(), for a column with a first row
TotalSeconds(col) == [ k \in 1 .. Len(col) |-> RatSub(col[k], col[1]) ]

\* the frame as read, rows labelled 1, 2, ...
ReadFrame ==
    [ index |-> [ p \in 1 .. Len(n_raw.time) |-> p ],
      time  |-> n_raw.time,
      val   |-> n_raw.val ]

WithElapsed(df, e) ==
    [ index |-> df.index, time |-> df.time, val |-> df.val, elapsed |-> e ]

\* the absolute-time branch shared by the loaders: parse, drop, subtract;
\* .iloc[0] of an empty column raises IndexError
AbsoluteBranch(df, on_empty) ==
    IF Len(df.index) = 0
    THEN /\ n_df' = WithElapsed(df, << >>)
         /\ n_status' = on_empty
    ELSE /\ n_df' = WithElapsed(df, TotalSeconds(df.time))
         /\ n_status' = "ready"

NormInputs(cells) ==
    { [ time |-> t, val |-> v ] :
        t \in SeqsUpTo(cells, MaxRows), v \in SeqsUpTo(ValueCells, MaxRows) }

InitNorm ==
    /\ series = << >> /\ index_base = 0 /\ min_size = 0 /\ zones = << >>
    /\ FlatIdle /\ StepIdle /\ HeapIdle /\ PromptIdle /\ LoadIdle /\ ZonesIdle /\ SpectrumIdle
    /\ n_path \in { "App", "CTK", "GUI", "Plot" }
    /\ n_mode \in IF n_path \in { "App", "CTK" }
                  THEN { "elapsed", "absolute" } ELSE { "absolute" }
    /\ n_raw \in { r \in NormInputs(IF n_mode = "elapsed" THEN ElapsedCells
                                                           ELSE ClockCells) :
                      Len(r.val) = Len(r.time) }
    /\ n_df = [ index |-> << >>, time |-> << >>, val |-> << >>, elapsed |-> << >> ]
    /\ n_status = "loaded"
    /\ pc = "n_load"

\* AlphaAnalysisApp._process_data, from the mode test on
ProcessDataApp ==
    /\ pc = "n_load" /\ n_path = "App"
    /\ IF n_mode = "elapsed"
       THEN LET t == ToNumericCol(n_raw.time)
            IN  /\ n_df' = [ index |-> ReadFrame.index, time |-> t,
                             val |-> n_raw.val, elapsed |-> t ]
                /\ n_status' = "ready"
       ELSE AbsoluteBranch(
                Dropna([ index |-> ReadFrame.index,
                         time  |-> ToDatetimeCol(n_raw.time),
                         val   |-> ToNumericCol(n_raw.val) ]),
                "crashed")
    /\ pc' = "n_done"
    /\ UNCHANGED << promptVars, heapVars, loadVars, zoneVars, step_edges, spVars, n_path, n_mode, n_raw, series, index_base,
                    window_size, tol, min_size, max_hole, max_island, raw_mask,
                    filled, cleaned, recleaned, cand_zones, zones, diff_window,
                    diff_threshold, transitions >>

\* AlphaGUI(CTK)._process_data, from the mode test on
ProcessDataCTK ==
    /\ pc = "n_load" /\ n_path = "CTK"
    /\ IF n_mode = "elapsed"
       THEN LET df == Dropna([ index |-> ReadFrame.index,
                               time  |-> ToNumericCol(n_raw.time),
                               val   |-> n_raw.val ])
            IN  /\ n_df' = WithElapsed(df, df.time)
                /\ n_status' = "ready"
       ELSE AbsoluteBranch(
                Dropna([ index |-> ReadFrame.index,
                         time  |-> ToDatetimeCol(n_raw.time),
                         val   |-> n_raw.val ]),
                "crashed")
    /\ pc' = "n_done"
    /\ UNCHANGED << promptVars, heapVars, loadVars, zoneVars, step_edges, spVars, n_path, n_mode, n_raw, series, index_base,
                    window_size, tol, min_size, max_hole, max_island, raw_mask,
                    filled, cleaned, recleaned, cand_zones, zones, diff_window,
                    diff_threshold, transitions >>

\* AlphaGUI._load_data, from the parse on
LoadDataGUI ==
    /\ pc = "n_load" /\ n_path = "GUI"
    /\ AbsoluteBranch(
           Dropna([ index |-> ReadFrame.index,
                    time  |-> ToDatetimeCol(n_raw.time),
                    val   |-> n_raw.val ]),
           "reported")
    /\ pc' = "n_done"
    /\ UNCHANGED << promptVars, heapVars, loadVars, zoneVars, step_edges, spVars, n_path, n_mode, n_raw, series, index_base,
                    window_size, tol, min_size, max_hole, max_island, raw_mask,
                    filled, cleaned, recleaned, cand_zones, zones, diff_window,
                    diff_threshold, transitions >>

\* AlphaPlotting.plotFromTableData: no row is dropped
PlotFromTableData ==
    /\ pc = "n_load" /\ n_path = "Plot"
    /\ AbsoluteBranch(
           [ index |-> ReadFrame.index,
             time  |-> ToDatetimeCol(n_raw.time),
             val   |-> n_raw.val ],
           "crashed")
    /\ pc' = "n_done"
    /\ UNCHANGED << promptVars, heapVars, loadVars, zoneVars, step_edges, spVars, n_path, n_mode, n_raw, series, index_base,
                    window_size, tol, min_size, max_hole, max_island, raw_mask,
                    filled, cleaned, recleaned, cand_zones, zones, diff_window,
                    diff_threshold, transitions >>

NextNorm ==
    \/ ProcessDataApp
    \/ ProcessDataCTK
    \/ LoadDataGUI
    \/ PlotFromTableData

SpecNorm == InitNorm /\ [][NextNorm]_vars

----------------------------------------------------------------------------
(* Properties *)

FlatReturned == pc \in { "review", "done" }

ZoneLen(z) == z[2] - z[1]

\* C1: the zone list flat detection returns is mutually disjoint, strictly
\* increasing in start, and every zone has end - start >= min_size.
C1_FlatZonesOrdered ==
    FlatReturned =>
        /\ \A k \in 1 .. Len(zones) : ZoneLen(zones[k]) >= min_size
        /\ \A k \in 1 .. Len(zones) - 1 :
              /\ zones[k][1] < zones[k + 1][1]
              /\ zones[k][2] <= zones[k + 1][1]

\* two zones are returned and a shorter candidate was dropped
C1_Witness ==
    /\ pc = "review"
    /\ Len(zones) >= 2
    /\ Len(cand_zones) > Len(zones)

\* C2: every zone returned by step detection on a series of N samples
\* satisfies 0 <= start < end <= N, whatever the row labels of the series.
C2_StepZonesInRange ==
    pc = "s_done" =>
        \A k \in 1 .. Len(zones) :
            /\ 0 <= zones[k][1]
            /\ zones[k][1] < zones[k][2]
            /\ zones[k][2] <= Len(series)

StepScenario ==
    /\ pc = "s_done"
    /\ series = ScenarioStep
    /\ index_base = 0
    /\ diff_window = 1
    /\ diff_threshold = << 5, 1 >>
    /\ min_size = 1

\* C3: on value = [0,0,0,10,10,10], diff_window = 1, diff_threshold = 5,
\* min_size = 1, step detection returns transitions [3] and exactly the
\* zones [0,3) and [3,6).
C3_StepScenario ==
    StepScenario =>
        /\ transitions = << 3 >>
        /\ zones = << << 0, 3 >>, << 3, 6 >> >>

C3_Witness == StepScenario /\ Len(zones) = 2

FlatStepsScenario ==
    /\ FlatReturned
    /\ series = ScenarioFlatSteps
    /\ window_size = 3
    /\ tol = << 1, 10 >>
    /\ min_size = 2

\* the trailing window of Python position p holds two different values
MixedWindow(s, p, w) ==
    \E x, y \in WindowLo(p + 1, w) .. p + 1 : s[x] # s[y]

NoMixedIndex ==
    \A k \in 1 .. Len(zones) :
        \A p \in zones[k][1] .. zones[k][2] - 1 :
            ~MixedWindow(series, p, window_size)

FlatZeroScenario ==
    /\ FlatReturned
    /\ series = ScenarioFlatZero
    /\ window_size = 2
    /\ tol = << 0, 1 >>
    /\ min_size = 1

\* C5: on values = [0,0,0,0], window_size = 2, std_threshold = 0,
\* min_size = 1, flat detection returns exactly one zone, [0,4).
C5_FlatZeroScenario ==
    FlatZeroScenario => zones = << << 0, 4 >> >>

\* C6: mask[i] is true iff the trailing-window standard deviation at i is
\* <= the threshold, and an index whose standard deviation is undefined is
\* marked true.
C6_UndefinedStdCountsTrue ==
    pc \in { "clean", "extract", "filter", "review", "done" } =>
        \A i \in 1 .. Len(series) :
            raw_mask[i] = IF StdDefined(i, window_size, 1)
                          THEN StdLe(series, i, window_size, tol)
                          ELSE TRUE

\* the indices of zs that the filter has to keep
KeptIndices(zs, m) == { i \in 1 .. Len(zs) : ZoneLen(zs[i]) >= m }

\* the k-th smallest element of a set of numbers
KthOf(S, k) == CHOOSE i \in S : Cardinality({ j \in S : j <= i }) = k

\* C8: filter_zones_by_size returns exactly the zones of the input with
\* end - start >= min_size, in their original order and unchanged; with
\* min_size = 1 and every input zone of length >= 1 it returns the input.
C8_FilterExact ==
    pc = "f_done" =>
        /\ Len(zones) = Cardinality(KeptIndices(cand_zones, min_size))
        /\ \A k \in 1 .. Len(zones) :
              zones[k] = cand_zones[KthOf(KeptIndices(cand_zones, min_size), k)]
        /\ ( /\ min_size = 1
             /\ \A i \in 1 .. Len(cand_zones) : ZoneLen(cand_zones[i]) >= 1 )
           => zones = cand_zones

\* a zone between two kept ones is dropped
C8_Witness ==
    /\ pc = "f_done"
    /\ Len(cand_zones) = 3
    /\ ZoneLen(cand_zones[1]) >= min_size
    /\ ZoneLen(cand_zones[2]) < min_size
    /\ ZoneLen(cand_zones[3]) >= min_size
    /\ cand_zones[1] # cand_zones[3]
    /\ Len(zones) = 2

\* C9: clean_mask(m, 0, 0) = m; max_hole = 0 makes the hole-filling pass
\* change no sample and max_island = 0 makes the island-removal pass change
\* no sample.
C9_ZeroDisablesPass ==
    /\ (pc \in { "c_islands", "c_again", "c_done" } /\ max_hole = 0)
          => filled = raw_mask
    /\ (pc \in { "c_again", "c_done" } /\ max_island = 0)
          => cleaned = filled
    /\ (pc \in { "c_again", "c_done" } /\ max_hole = 0 /\ max_island = 0)
          => cleaned = raw_mask
    /\ (pc = "c_done" /\ max_hole = 0 /\ max_island = 0)
          => recleaned = cleaned

\* both passes disabled on a mask with a one-sample hole and one-sample islands
C9_Witness ==
    /\ pc = "c_done"
    /\ max_hole = 0 /\ max_island = 0
    /\ Len(raw_mask) >= 3
    /\ raw_mask[1] /\ ~raw_mask[2] /\ raw_mask[3]
    /\ cleaned = raw_mask

\* C10 as stated: there are a mask m and parameters h, i (not both 0) for
\* which clean_mask(clean_mask(m, h, i), h, i) differs from clean_mask(m, h, i)
\* (looked for, once a mask has been cleaned twice, among all masks and
\* parameters of the model).
C10_Original ==
    pc = "c_done" =>
        \E m \in MaskInputs, h \in 0 .. MaxHole, i \in 0 .. MaxIsland :
            /\ h # 0 \/ i # 0
            /\ clean_mask(clean_mask(m, h, i), h, i) # clean_mask(m, h, i)

\* C10 as amended: clean_mask is idempotent: for every mask and every
\* max_hole, max_island, cleaning the cleaned mask again changes nothing.
C10_CleanIdempotent ==
    pc = "c_done" => recleaned = cleaned

\* both passes changed the mask the first time
C10_Witness ==
    /\ pc = "c_done"
    /\ filled # raw_mask
    /\ cleaned # filled
    /\ recleaned = cleaned

\* the rows of the raw table whose time cell parses, for the mode in force
ParsedRaw ==
    IF n_mode = "elapsed" THEN ToNumericCol(n_raw.time)
                          ELSE ToDatetimeCol(n_raw.time)

\* C11: in elapsed mode a delivered frame holds exactly the rows whose time
\* coerces to a number, no retained row has an undefined elapsed time, and
\* the time and value columns have the same rows.
C11_ElapsedRowsDropped ==
    (pc = "n_done" /\ n_mode = "elapsed" /\ n_status = "ready") =>
        /\ n_df.index = NotNaPos(ParsedRaw)
        /\ \A k \in 1 .. Len(n_df.elapsed) : ~IsNaN(n_df.elapsed[k])
        /\ Len(n_df.time) = Len(n_df.index)
        /\ Len(n_df.val) = Len(n_df.index)
        /\ Len(n_df.elapsed) = Len(n_df.index)

\* C12: in absolute mode, on every path, a delivered frame holds exactly the
\* rows whose timestamp parses, elapsed[k] is the timestamp of row k minus the
\* first retained timestamp, and the first retained row has elapsed 0.
C12_AbsoluteElapsedFromFirst ==
    (pc = "n_done" /\ n_mode = "absolute" /\ n_status = "ready") =>
        /\ n_df.index = NotNaPos(ParsedRaw)
        /\ Len(n_df.elapsed) = Len(n_df.index)
        /\ \A k \in 1 .. Len(n_df.index) :
              RatEq(n_df.elapsed[k],
                    RatSub(ParsedRaw[n_df.index[k]], ParsedRaw[n_df.index[1]]))
        /\ (NotNaPos(ParsedRaw) # << >>) => RatEq(n_df.elapsed[1], << 0, 1 >>)

\* C13: when the table has rows and the time of every row fails to parse,
\* the normalization ends in a reported failure: it neither delivers a frame
\* nor dies unreported.
C13_AllRowsFailReported ==
    (pc = "n_done" /\ Len(n_raw.time) > 0 /\ NotNaPos(ParsedRaw) = << >>) =>
        n_status = "reported"

\* C14: a configuration with diff_window < 1, a negative threshold or
\* min_size < 1 is rejected before any detection computation: whenever
\* transitions have been computed, the configuration is a valid one.
C14_InvalidConfigRejected ==
    pc \in { "s_zones", "s_done" } =>
        /\ diff_window >= 1
        /\ ~RatLt(diff_threshold, << 0, 1 >>)
        /\ min_size >= 1

\* the pressure samples of the zone under analysis
ZoneSamples == Take(sp_vals, ZoneRows)

\* C15: the GUI's spectral analysis guards the sample count: a zone with no
\* sample is rejected as empty, and a zone with exactly one sample fails
\* instead of producing a spectrum.
C15_SampleCountGuarded ==
    (pc = "sp_done" /\ sp_routine = "confirm") =>
        /\ Len(ZoneRows) = 0 => sp_status = "empty"
        /\ Len(ZoneRows) = 1 => (sp_status # "plotted" /\ sp_amps = << >>)

\* C16: for a zone of N samples every spectral routine returns frequency and
\* amplitude sequences of the same length floor(N / 2) + 1.
C16_SpectrumLengths ==
    (pc = "sp_done" /\ sp_status = "plotted") =>
        /\ Len(sp_freqs) = (Len(ZoneRows) \div 2) + 1
        /\ Len(sp_amps) = (Len(ZoneRows) \div 2) + 1

\* the GUI has plotted the spectrum of a zone whose samples are all equal
ConstantZonePlotted ==
    /\ pc = "sp_done" /\ sp_routine = "confirm" /\ sp_status = "plotted"
    /\ \A k \in 1 .. Len(ZoneSamples) : ZoneSamples[k] = ZoneSamples[1]

Candidates ==
    LET sm == Smooth(Deriv(series), diff_window)
    IN  Edges(sm, ChooseThreshold(sm, diff_threshold), index_base)

SeqSet(s) == { s[k] : k \in 1 .. Len(s) }

\* C18: the transitions returned are a strictly increasing subsequence of
\* the candidates, the first candidate is kept, consecutive kept indices
\* differ by more than diff_window, and every discarded candidate lies at
\* most diff_window after the most recently kept index before it.
C18_TransitionsThinned ==
    pc \in { "s_zones", "s_done" } =>
        LET cands     == Candidates
            kept      == SeqSet(transitions)
            discarded == SeqSet(cands) \ kept
        IN  /\ kept \subseteq SeqSet(cands)
            /\ \A k \in 1 .. Len(transitions) - 1 :
                  /\ transitions[k] < transitions[k + 1]
                  /\ transitions[k + 1] - transitions[k] > diff_window
            /\ cands # << >> =>
                  (transitions # << >> /\ transitions[1] = cands[1])
            /\ \A c \in discarded :
                  \E k \in 1 .. Len(transitions) :
                      /\ transitions[k] < c
                      /\ c - transitions[k] <= diff_window
                      /\ k < Len(transitions) => transitions[k + 1] > c

\* some candidates were kept and some discarded
C18_Witness ==
    /\ pc = "s_done"
    /\ Len(transitions) >= 2
    /\ Len(Candidates) > Len(transitions)

\* the first and the last position of the maximal run of equal samples
\* that contains position p
RunLo(m, p) ==
    CHOOSE a \in 1 .. p :
        /\ \A x \in a .. p : m[x] = m[p]
        /\ a = 1 \/ m[a - 1] # m[p]

RunHi(m, p) ==
    CHOOSE b \in p .. Len(m) :
        /\ \A x \in p .. b : m[x] = m[p]
        /\ b = Len(m) \/ m[b + 1] # m[p]

RunLen(m, p) == RunHi(m, p) - RunLo(m, p) + 1

C20_IslandsAfterFilling ==
    pc \in { "c_again", "c_done" } =>
        /\ Len(cleaned) = Len(filled)
        /\ \A p \in 1 .. Len(filled) :
              cleaned[p] <=> (filled[p] /\ RunLen(filled, p) > max_island)
        /\ \A p \in 1 .. Len(cleaned) :
              cleaned[p] => RunLen(cleaned, p) > max_island

\* two one-sample true runs merged by hole filling and kept, and a
\* one-sample true run cleared
C20_Witness ==
    /\ pc = "c_done"
    /\ max_hole = 1 /\ max_island = 2
    /\ raw_mask = << TRUE, FALSE, TRUE, FALSE, FALSE, TRUE, FALSE, FALSE >>
    /\ filled = << TRUE, TRUE, TRUE, FALSE, FALSE, TRUE, FALSE, FALSE >>
    /\ cleaned = << TRUE, TRUE, TRUE, FALSE, FALSE, FALSE, FALSE, FALSE >>

\* C21: extract_zones returns, in increasing order, exactly the maximal runs
\* of true: index i is in a returned zone iff mask[i] is true, a zone starts
\* at 0 or right after a false sample, ends at a false sample or at N, and
\* an empty mask gives no zone.
C21_ZonesAreMaximalRuns ==
    pc = "e_done" =>
        LET N == Len(cleaned)
            z == cand_zones
        IN  /\ \A k \in 1 .. Len(z) :
                  /\ 0 <= z[k][1] /\ z[k][1] < z[k][2] /\ z[k][2] <= N
                  /\ z[k][1] = 0 \/ ~cleaned[z[k][1]]
                  /\ z[k][2] = N \/ ~cleaned[z[k][2] + 1]
            /\ \A k \in 1 .. Len(z) - 1 : z[k][2] < z[k + 1][1]
            /\ \A i \in 0 .. N - 1 :
                  cleaned[i + 1] <=> \E k \in 1 .. Len(z) : z[k][1] <= i /\ i < z[k][2]
            /\ N = 0 => z = << >>

\* a run from index 0, an inner run and a run open at the end
C21_Witness ==
    /\ pc = "e_done"
    /\ cleaned = << TRUE, FALSE, TRUE, TRUE, FALSE, FALSE, TRUE, TRUE >>
    /\ cand_zones = << << 0, 1 >>, << 2, 4 >>, << 6, 8 >> >>

\* C22: for a series of N >= 1 samples and min_size = 1 the step zones tile
\* [0, N): every sample index belongs to exactly one zone, the first zone
\* starts at 0 and the last ends at N.
C22_StepZonesTile ==
    (pc = "s_done" /\ Len(series) >= 1 /\ min_size = 1) =>
        /\ zones # << >>
        /\ zones[1][1] = 0
        /\ zones[Len(zones)][2] = Len(series)
        /\ \A i \in 0 .. Len(series) - 1 :
              Cardinality({ k \in 1 .. Len(zones) :
                              zones[k][1] <= i /\ i < zones[k][2] }) = 1

\* the defined values of a column, sorted in increasing order
RECURSIVE SortedDefined(_, _)
SortedDefined(sm, k) ==
    IF k = 0 THEN << >>
    ELSE LET rest == SortedDefined(sm, k - 1)
             below == SelectSeq(rest, LAMBDA q : ~RatGt(q, sm[k]))
             above == SelectSeq(rest, LAMBDA q : RatGt(q, sm[k]))
         IN  IF IsNaN(sm[k]) THEN rest ELSE below \o << sm[k] >> \o above

\* three times the middle of the sorted defined values (for an even count,
\* of the mean of the two middle values); NaN when no value is defined
ThreeMedians(sm) ==
    LET s == SortedDefined(sm, Len(sm))
        n == Len(s)
    IN  IF n = 0 THEN NaN
        ELSE IF n % 2 = 1 THEN << 3 * s[(n + 1) \div 2][1], s[(n + 1) \div 2][2] >>
        ELSE LET a == s[n \div 2]
                 b == s[n \div 2 + 1]
             IN  << 3 * (a[1] * b[2] + b[1] * a[2]), 2 * a[2] * b[2] >>

\* C23: without an explicit threshold, index i is a candidate transition iff
\* smoothed_deriv[i] > 3 x the median of the defined smoothed values; an
\* explicit threshold is used unchanged; a constant series yields no
\* transition and, with min_size <= N, the single zone [0, N).
C23_AutoThreshold ==
    pc \in { "s_zones", "s_done" } =>
        LET sm   == Smooth(Deriv(series), diff_window)
            used == IF IsNaN(diff_threshold) THEN ThreeMedians(sm) ELSE diff_threshold
        IN  /\ SeqSet(step_edges) =
                  { index_base + p - 1 : p \in { q \in 1 .. Len(sm) : RatGt(sm[q], used) } }
            /\ (\A p \in 1 .. Len(series) : series[p] = series[1]) =>
                  /\ transitions = << >>
                  /\ (pc = "s_done" /\ min_size <= Len(series)) =>
                        zones = << << 0, Len(series) >> >>

\* automatic threshold: a sample above the median but not above three
\* times the median is no candidate, a larger one is
C23_Witness ==
    /\ pc = "s_done"
    /\ IsNaN(diff_threshold) /\ diff_window = 1
    /\ series = << 0, 0, 0, 1, 5 >>
    /\ step_edges = << index_base + 4 >>

\* a load has disabled the controls and they are not yet re-enabled
LoadInProgress == btn_state["load"] = "disabled"

\* C24: every load started by _load_data_thread eventually re-enables the
\* controls, whatever the interleaving and the outcome.
C24_ControlsReenabled ==
    LoadInProgress ~> ~LoadInProgress

\* C25: when the date of an attempt is well formed and its file read has
\* succeeded, the worker of that attempt eventually processes the data,
\* also after an earlier attempt with a cancelled or malformed date.
C25_GoodDateProcessed ==
    \A a \in 1 .. MaxAttempts :
        (date_outcome[a] = "ok" /\ worker_pc[a] = "waiting")
            ~> (worker_pc[a] \in { "process", "scheduled", "crashed" })

\* C26: no load worker stays blocked forever on collected_date_event.
C26_NoWorkerBlockedForever ==
    \A a \in 1 .. MaxAttempts :
        (worker_pc[a] = "waiting") ~> (worker_pc[a] # "waiting")

\* C27: while a load is in progress every button that starts an operation
\* on the data frame or the zone list is disabled, and no such operation
\* runs while a worker thread is replacing or rewriting self.df.
C27_ControlsDisabledDuringLoad ==
    /\ LoadInProgress => \A b \in Buttons : btn_state[b] = "disabled"
    /\ (\E a \in 1 .. MaxAttempts : worker_pc[a] \in { "reading", "process" })
          => main_pc # "export_dialog"

\* the (start, end) pairs of a zone list, in list order
Spans(zs) == [ k \in 1 .. Len(zs) |-> << zs[k].start, zs[k].end >> ]

\* a right-click at x removes the first zone containing x and no other
\* zone, or nothing when no zone contains x
RightClickRemovesFirst(x) ==
    LET hits == { i \in 1 .. Len(gui_zones) :
                    gui_zones[i].start <= x /\ x <= gui_zones[i].end }
    IN  IF hits = { }
        THEN Spans(gui_zones') = Spans(gui_zones)
        ELSE LET first == CHOOSE i \in hits : \A j \in hits : i <= j
             IN  /\ Len(gui_zones') = Len(gui_zones) - 1
                 /\ \A k \in 1 .. Len(gui_zones') :
                       Spans(gui_zones')[k] =
                           Spans(gui_zones)[IF k < first THEN k ELSE k + 1]

\* C28: after any sequence of zone draws, right-click deletions and redraws
\* the i-th stored zone carries label i; a right-click inside a drawn zone
\* removes exactly one zone, the first in list order that contains the
\* click, and a right-click outside every zone removes none.
C28_LabelsFollowListOrder ==
    /\ [](\A k \in 1 .. Len(gui_zones) : gui_zones[k].label = k)
    /\ [][\A x \in Xs : OnClick(3, x) => RightClickRemovesFirst(x)]_vars

\* two overlapping zones are left, numbered 1 and 2, after a click
C28_Witness ==
    /\ pc = "z_click"
    /\ Len(gui_zones) = 2
    /\ Spans(gui_zones) = << << 0, 2 >>, << 1, 3 >> >>
    /\ gui_zones[1].label = 1 /\ gui_zones[2].label = 2

\* the objects an operation has been handed: the mask of clean_mask and
\* extract_zones, the zone list of filter_zones_by_size, the series of
\* detect_transitions and make_step_zones, the transitions of make_step_zones
GivenObjects ==
    { refs.mask, refs.cleaned, refs.zones, refs.series, refs.transitions } \ { 0 }

\* C29: no step of a detection operation changes an object the operation was
\* given, and the mask clean_mask returns is another object than the one it
\* was given, with the same length and the same index
C29_InputsNeverModified ==
    /\ [][\A id \in GivenObjects : heap'[id] = heap[id]]_vars
    /\ [](refs.cleaned # 0 =>
            /\ refs.cleaned # refs.mask
            /\ Len(heap[refs.cleaned].data) = Len(heap[refs.mask].data)
            /\ heap[refs.cleaned].index = heap[refs.mask].index)

\* a run in which clean_mask wrote both a filled hole and a removed island
\* into its array and the zones were extracted and filtered afterwards
C29_Witness ==
    /\ pc = "h_done"
    /\ refs.cleaned # 0
    /\ \E k \in 1 .. Len(heap[refs.mask].data) :
          heap[refs.mask].data[k] = 0 /\ heap[refs.cleaned].data[k] = 1
    /\ \E k \in 1 .. Len(heap[refs.mask].data) :
          heap[refs.mask].data[k] = 1 /\ heap[refs.cleaned].data[k] = 0
    /\ Len(heap[refs.kept].data) < Len(heap[refs.zones].data)

\* the inputs C30 calls invalid: a blank when allowBlank is false, text that
\* is not digits, a value above maximum; in multiple mode, any such piece
InvalidText(u) == ~IsDigit(u) \/ AboveMaximum(IntOf(u), maximum)

InvalidInput ==
    LET u == Strip(user_input)
    IN  IF u = << >> THEN ~allowBlank
        ELSE IF multiple
             THEN \E k \in 1 .. Len(Split(u)) : InvalidText(Strip(Split(u)[k]))
             ELSE InvalidText(u)

\* C30: after an invalid input the call is still prompting: it has neither
\* returned nor raised
C30_InvalidInputPromptsAgain ==
    (pc = "gi_prompt" /\ prompts > 0 /\ InvalidInput) => gi_status = "prompting"


============================================================================
